---- MODULE Spec2Model ----
(***************************************************************************)
(* Golfer career simulation: the engine of src/core/simulation.py, the     *)
(* records of src/domain/models.py and the repository of                   *)
(* src/persistence/storage.py.                                             *)
(*                                                                         *)
(* Conventions of the translation                                          *)
(*  - Optional[T]: None is <<>> and a value v is <<v>>.                    *)
(*  - A dict is a function on strings; d.get(k, default) is Get.           *)
(*  - Floats are fixed-point integers in thousandths (suffix _m).          *)
(*  - A message is a sequence of string tokens; str concatenation is \o.   *)
(*  - random.Random is [seed, calls]: the k-th draw is a fixed function    *)
(*    of the seed and k, as a seeded generator's stream is.                *)
(***************************************************************************)
EXTENDS Integers, Sequences, FiniteSets, TLC

VARIABLES
    config,   \* StateRepository.config, read-only after construction
    engine,   \* the SimulationEngine: state, _random, _tournament_processed, store;
              \* appended and resolved record what the calls did
    twin,     \* a second, independent engine built from the same configuration
    workers,  \* the hosting layer's threads serving requests on the engine
    call      \* the last call made on the engine(s) and how it ended

vars == <<config, engine, twin, workers, call>>

----------------------------------------------------------------------------
(* Bounds of the model *)

\* number of calls explored by Spec
MaxCalls == 2
\* number of ledger appends explored by SpecLedger
MaxAppends == 52
\* the calls and the weeks SpecLedger explores
MaxLedgerCalls == 55
MaxLedgerWeek == 2
\* number of calls explored by SpecTwin
MaxTwinCalls == 2

----------------------------------------------------------------------------
(* Generic helpers *)

None == <<>>
Some(v) == <<v>>
IsNone(o) == o = <<>>
Min(a, b) == IF a <= b THEN a ELSE b
Max(a, b) == IF a >= b THEN a ELSE b
\* Python int(): truncation toward zero of n/d, d > 0
TruncDiv(n, d) == IF n >= 0 THEN n \div d ELSE -((-n) \div d)
\* int(round(n / d)) as Python rounds: to the nearest, a tie to the even integer
RoundHalfEven(n, d) ==
    LET q == n \div d
        rem == n % d
    IN  IF 2 * rem < d THEN q
        ELSE IF 2 * rem > d THEN q + 1
        ELSE IF q % 2 = 0 THEN q ELSE q + 1
\* int(round(x)) of a value x in thousandths
Round_m(x) == RoundHalfEven(x, 1000)
\* dict.get(key, default)
Get(d, key, default) == IF key \in DOMAIN d THEN d[key] ELSE default
\* seq[-n:]
LastN(s, n) == IF Len(s) <= n THEN s ELSE SubSeq(s, Len(s) - n + 1, Len(s))
\* seq[:n]
FirstN(s, n) == IF Len(s) <= n THEN s ELSE SubSeq(s, 1, n)
\* f"{idx:03d}"
Pad3(idx) ==
    IF idx < 10 THEN "00" \o ToString(idx)
    ELSE IF idx < 100 THEN "0" \o ToString(idx)
    ELSE ToString(idx)

\* a Python list built by a comprehension: the values, computed once
ListOf(f) == f \o <<>>

\* the sum of s[lo..hi], by halves
RECURSIVE SumOver(_, _, _)
SumOver(s, lo, hi) ==
    IF lo > hi THEN 0
    ELSE IF lo = hi THEN s[lo]
    ELSE SumOver(s, lo, (lo + hi) \div 2) + SumOver(s, (lo + hi) \div 2 + 1, hi)

RECURSIVE SumSeq(_)
SumSeq(s) == IF s = <<>> THEN 0 ELSE s[1] + SumSeq(Tail(s))

\* tuple comparison of Python, on tuples of integers of equal length
RECURSIVE LexLess(_, _)
LexLess(a, b) ==
    IF a = <<>> THEN FALSE
    ELSE IF a[1] < b[1] THEN TRUE
    ELSE IF a[1] > b[1] THEN FALSE
    ELSE LexLess(Tail(a), Tail(b))

\* sorted(items, key=...): the stable ascending order of the indices idxs under
\* key[i]; equal keys keep their order in idxs.
RECURSIVE StableSort(_, _)
StableSort(idxs, key) ==
    IF Len(idxs) <= 1 THEN idxs
    ELSE
        LET p == key[idxs[(Len(idxs) + 1) \div 2]]
            Less(i) == LexLess(key[i], p)
            Same(i) == key[i] = p
            More(i) == LexLess(p, key[i])
        IN  StableSort(SelectSeq(idxs, Less), key)
                \o SelectSeq(idxs, Same)
                \o StableSort(SelectSeq(idxs, More), key)

----------------------------------------------------------------------------
(* Configurations (the JSON document read by StateRepository._load_config) *)

FourSkills(v) == << <<"driving", v>>, <<"approach", v>>, <<"short_game", v>>, <<"putting", v>> >>

\* build_repository of the test suite
TestConfig ==
    [ season_length |-> 2,
      initial_player |->
        [ name |-> "Test Player", age |-> 18, skills |-> FourSkills(50),
          fatigue_physical |-> 0, fatigue_mental |-> 0, form |-> 50,
          money |-> 1000, reputation |-> 0, motivation |-> 50 ],
      training |-> [ physical_fatigue |-> 10, mental_fatigue |-> 6, cost |-> 100,
                     skill_increase |-> 4 ],
      rest |-> [ physical_recovery |-> 12, mental_recovery |-> 10, form_gain |-> 2 ],
      tournament |-> [ physical_fatigue |-> 15, mental_fatigue |-> 9, entry_fee |-> 150,
                       motivation_per_1000 |-> 500, motivation_per_reputation |-> 1000,
                       motivation_loss_on_miss |-> 5 ],
      agent_chat |-> [ motivation_boost |-> 8, mental_recovery |-> 5 ],
      tournaments |-> << [ name |-> "Test Open", week |-> 1, difficulty |-> 400,
                           purse |-> 2000, entry_fee |-> 120, reputation_reward |-> 3 ] >> ]

\* the configuration of test_tournament_entry_fee_applies_on_loss
LossConfig ==
    [ season_length |-> 1,
      initial_player |->
        [ name |-> "Test Player", age |-> 18, skills |-> FourSkills(40),
          fatigue_physical |-> 0, fatigue_mental |-> 0, form |-> 40,
          money |-> 800, reputation |-> 0, motivation |-> 40 ],
      training |-> [ physical_fatigue |-> 10, mental_fatigue |-> 6, cost |-> 0,
                     skill_increase |-> 2 ],
      rest |-> [ physical_recovery |-> 10, mental_recovery |-> 8, form_gain |-> 1 ],
      tournament |-> [ physical_fatigue |-> 12, mental_fatigue |-> 7, entry_fee |-> 400,
                       motivation_per_1000 |-> 500, motivation_per_reputation |-> 1000,
                       motivation_loss_on_miss |-> 5 ],
      agent_chat |-> [ motivation_boost |-> 5, mental_recovery |-> 4 ],
      tournaments |-> << [ name |-> "Difficult Event", week |-> 1, difficulty |-> 900,
                           purse |-> 300, entry_fee |-> 400, reputation_reward |-> 1 ] >> ]

\* no rule section at all (every rule takes its default), no season_length, a
\* tournament without entry_fee and reputation_reward, a strong golfer, and an
\* explicit roster of two competitors
DefaultsConfig ==
    [ initial_player |->
        [ name |-> "Ace", age |-> 20,
          skills |-> << <<"driving", 95>>, <<"putting", 90>> >>,
          fatigue |-> 96, form |-> 99, money |-> 0, reputation |-> 1 ],
      season_players |-> << [ player_id |-> "RIVAL", name |-> "Rival One" ],
                            [ name |-> "Rival Two" ] >>,
      tournaments |-> << [ name |-> "Spring Cup", week |-> 1, difficulty |-> 100,
                           purse |-> 100000 ],
                         [ name |-> "Autumn Cup", week |-> 2, difficulty |-> 500,
                           purse |-> 50000, entry_fee |-> -30, reputation_reward |-> -1 ] >> ]

\* integer rule values of either sign, and a tournament whose own entry fee is 0
\* under a global one of 25
SignedConfig ==
    [ season_length |-> 2,
      initial_player |->
        [ name |-> "Edge", age |-> 30, skills |-> << <<"driving", 2>>, <<"putting", 0>> >>,
          fatigue_physical |-> 95, fatigue_mental |-> 3, form |-> 5,
          money |-> 10, reputation |-> 1, motivation |-> 97 ],
      training |-> [ fatigue |-> -20, cost |-> -50, skill_increase |-> -3 ],
      rest |-> [ fatigue_recovery |-> -9, form_gain |-> -7 ],
      tournament |-> [ fatigue |-> -40, entry_fee |-> 25, motivation_per_1000 |-> 600,
                       motivation_per_reputation |-> -500,
                       motivation_loss_on_miss |-> -6 ],
      agent_chat |-> [ motivation_boost |-> -60, mental_recovery |-> -99 ],
      tournaments |-> << [ name |-> "Edge Open", week |-> 2, difficulty |-> 1000,
                           purse |-> 0, entry_fee |-> 0, reputation_reward |-> 0 ] >> ]

\* a season of length zero: over from the start
EmptySeasonConfig ==
    [ season_length |-> 0,
      initial_player |->
        [ name |-> "Idle", age |-> 40, skills |-> << <<"driving", 50>> >>,
          form |-> 10, money |-> 5 ],
      tournaments |-> <<>> ]

\* a configured roster longer than a tournament's field
RosterSize == 201
RosterConfig ==
    [ season_length |-> 1,
      initial_player |->
        [ name |-> "Crowd", age |-> 25, skills |-> << <<"driving", 55>>, <<"putting", 45>> >>,
          form |-> 50, money |-> 500 ],
      season_players |-> ListOf([ i \in 1..RosterSize |-> [ name |-> "Guest " \o ToString(i) ] ]),
      tournament |-> [ motivation_per_1000 |-> 40600 ],
      tournaments |-> << [ name |-> "Open Day", week |-> 1, difficulty |-> 300,
                           purse |-> 20000, entry_fee |-> 0 ] >> ]

\* the same career where money won lowers the motivation
SourConfig ==
    [RosterConfig EXCEPT !.tournament = [ motivation_per_1000 |-> -40600 ]]

Configs ==
    <<TestConfig, LossConfig, DefaultsConfig, SignedConfig, EmptySeasonConfig, RosterConfig,
      SourConfig>>
\* the seeds handed to SimulationEngine(repository, seed); None seeds from the OS
Seeds == {Some(1), Some(2), None}
\* what the OS entropy pool may hand to random.Random(None)
Entropy == {7, 11}

training_rules == Get(config, "training", <<>>)
rest_rules == Get(config, "rest", <<>>)
tournament_rules == Get(config, "tournament", <<>>)
agent_chat_rules == Get(config, "agent_chat", <<>>)

----------------------------------------------------------------------------
(* Domain models *)

TournamentFromDict(data) ==
    [ name |-> data.name,
      week |-> data.week,
      difficulty |-> data.difficulty,       \* thousandths
      purse |-> data.purse,
      reputation_reward |-> Get(data, "reputation_reward", 0),
      entry_fee |-> IF "entry_fee" \notin DOMAIN data THEN None ELSE Some(data.entry_fee) ]

GolferFromDict(data) ==
    [ name |-> data.name,
      age |-> data.age,
      skills |-> data.skills,               \* ordered <<name, value>> pairs
      fatigue_physical |-> Get(data, "fatigue_physical", Get(data, "fatigue", 0)),
      fatigue_mental |-> Get(data, "fatigue_mental", 0),
      form |-> Get(data, "form", 0),
      money |-> Get(data, "money", 0),
      reputation |-> Get(data, "reputation", 0),
      motivation |-> Get(data, "motivation", 50) ]

\* skills.keys(), skills.values(), skills.get(name, default), skills[name] = v
SkillKeys(skills) == ListOf([i \in 1..Len(skills) |-> skills[i][1]])
SkillValues(skills) == ListOf([i \in 1..Len(skills) |-> skills[i][2]])
SkillGet(skills, name, default) ==
    IF \E i \in 1..Len(skills) : skills[i][1] = name
    THEN skills[CHOOSE i \in 1..Len(skills) : skills[i][1] = name][2]
    ELSE default
\* SkillSet writing to the first skill of the map whatever the name: C22 does not
\* hold of it
SkillSetFirst(skills, name, v) ==
    IF skills = <<>> THEN << <<name, v>> >>
    ELSE [skills EXCEPT ![1] = << @[1], v >>]

\* skills[name] = v: an existing key keeps its place, a new one is added last
SkillSet(skills, name, v) ==
    IF \E i \in 1..Len(skills) : skills[i][1] = name
    THEN ListOf([i \in 1..Len(skills) |-> IF skills[i][1] = name THEN <<name, v>> ELSE skills[i]])
    ELSE Append(skills, <<name, v>>)

\* LedgerEntry(week, action, description, money_delta, fatigue_physical_delta,
\*             fatigue_mental_delta, reputation_delta, motivation_delta, skill_changes)
LedgerEntry(week, action, description, money, physical, mental, reputation, motivation, skill_changes) ==
    [ week |-> week, action |-> action, description |-> description,
      money_delta |-> money,
      fatigue_physical_delta |-> physical,
      fatigue_mental_delta |-> mental,
      reputation_delta |-> reputation,
      motivation_delta |-> motivation,
      skill_changes |-> skill_changes ]

SeasonPlayer(player_id, name, base_skill) ==
    [ player_id |-> player_id, name |-> name, base_skill |-> base_skill,
      earnings |-> 0, points |-> 0, events_played |-> 0, cuts_made |-> 0, wins |-> 0,
      last_result |-> None ]

PlayerSeasonStats(player_id) ==
    [ player_id |-> player_id, earnings |-> 0, points |-> 0, events_played |-> 0,
      cuts_made |-> 0, wins |-> 0, last_result |-> None ]

\* lookup_tournament falling back on the season's first tournament when the
\* week has none: C28 does not hold of it
LookupTournamentOrFirst(season, week) ==
    LET hits == SelectSeq(season.tournaments, LAMBDA t : t.week = week)
    IN  IF hits # <<>> THEN Some(hits[1])
        ELSE IF season.tournaments = <<>> THEN None ELSE Some(season.tournaments[1])

\* Season.lookup_tournament: the first tournament of that week, or None
LookupTournament(season, week) ==
    LET hits == SelectSeq(season.tournaments, LAMBDA t : t.week = week)
    IN  IF hits = <<>> THEN None ELSE Some(hits[1])

----------------------------------------------------------------------------
(* The random source *)

\* NewRandom that drops the seed it is given (random.Random() for every engine):
\* C3 does not hold of it
NewRandomUnseeded(seed, entropy) == [ seed |-> entropy, calls |-> 0 ]

\* random.Random(seed): seeded from the OS when seed is None
NewRandom(seed, entropy) ==
    [ seed |-> IF IsNone(seed) THEN entropy ELSE seed[1], calls |-> 0 ]

\* the k-th raw draw of the stream of a seed
Mix(seed, k) ==
    LET x == (seed * 1201 + k * 7 + 1) % 44000
        y == (x * 48271) % 65521
    IN  (y * 32749 + k) % 65537

\* standard normal deviates, thousandths, equally likely
Deviates ==
    << -1860, -1320, -1010, -780, -580, -400, -240, -80,
       80, 240, 400, 580, 780, 1010, 1320, 1860 >>

\* gauss(mu, sigma) as the k-th draw after r; mu and sigma in thousandths
GaussAt(r, k, mu, sigma) ==
    mu + (sigma * Deviates[(Mix(r.seed, r.calls + k) % 16) + 1]) \div 1000
\* randint(a, b) as the k-th draw after r
RandintAt(r, k, a, b) == a + (Mix(r.seed, r.calls + k) % (b - a + 1))
\* the generator after n draws
Advance(r, n) == [r EXCEPT !.calls = @ + n]

----------------------------------------------------------------------------
(* StateRepository (src/persistence/storage.py) *)

\* sum(skills.values()) / max(1, len(skills)), in thousandths
AverageSkill_m(skills) == (SumSeq(SkillValues(skills)) * 1000) \div Max(1, Len(skills))

\* avg_skill + rng.gauss(0, 4.0) clamped to [40, 70], for the k-th draw after rng
ComputeInitialBaseSkill(avg_skill, rng, k) ==
    Max(40000, Min(70000, avg_skill + GaussAt(rng, k, 0, 4000)))

RepoGenerateSeasonPlayers(count, avg_skill, rng) ==
    ListOf([ idx \in 1..count |->
        SeasonPlayer("P" \o Pad3(idx), "Pro " \o Pad3(idx),
                     ComputeInitialBaseSkill(avg_skill, rng, idx - 1)) ])

LoadSeasonPlayers(golfer) ==
    LET players_config == Get(config, "season_players", <<>>)
        rng == NewRandom(Some(1337), 0)
        avg_skill == AverageSkill_m(golfer.skills)
    IN  IF players_config # <<>>
        THEN ListOf([ idx \in 1..Len(players_config) |->
                 SeasonPlayer(Get(players_config[idx], "player_id", "P" \o Pad3(idx)),
                              Get(players_config[idx], "name", "Pro " \o Pad3(idx)),
                              ComputeInitialBaseSkill(avg_skill, rng, idx - 1)) ])
        ELSE RepoGenerateSeasonPlayers(199, avg_skill, rng)

CreateInitialState ==
    LET golfer == GolferFromDict(config.initial_player)
        tournaments == ListOf([ i \in 1..Len(Get(config, "tournaments", <<>>)) |->
                                  TournamentFromDict(config.tournaments[i]) ])
    IN  [ golfer |-> golfer,
          season |-> [ current_week |-> 1,
                       total_weeks |-> Get(config, "season_length", Len(tournaments)),
                       tournaments |-> tournaments ],
          ledger |-> <<>>,
          last_tournament_result |-> None,
          season_players |-> LoadSeasonPlayers(golfer),
          player_stats |-> Some(PlayerSeasonStats("USER")),
          season_rankings |-> <<>>,
          season_results |-> <<>>,
          season_summary |-> None,
          last_message |-> "" ]

\* save_state: the document written to state_path
SaveState(e, state) == [e EXCEPT !.saved = Some(state)]

\* In a saved document a JSON null is None; the value v of a key that may be
\* null is Some(v).

\* Tournament.to_dict: asdict, so entry_fee is always a key, null without an
\* override
TournamentToDict(t) ==
    [ name |-> t.name, week |-> t.week, difficulty |-> t.difficulty,
      purse |-> t.purse, reputation_reward |-> t.reputation_reward,
      entry_fee |-> t.entry_fee ]

\* SimulationState.to_dict (with Golfer.to_dict, Season.to_dict and the asdict
\* of the ledger entries, results and stats)
StateToDict(state) ==
    [ golfer |-> state.golfer,
      season |-> [ current_week |-> state.season.current_week,
                   total_weeks |-> state.season.total_weeks,
                   tournaments |-> ListOf([ i \in 1..Len(state.season.tournaments) |->
                                              TournamentToDict(state.season.tournaments[i]) ]) ],
      ledger |-> state.ledger,
      last_tournament_result |-> state.last_tournament_result,
      season_players |-> state.season_players,
      player_stats |-> state.player_stats,
      season_rankings |-> state.season_rankings,
      season_results |-> state.season_results,
      season_summary |-> state.season_summary,
      last_message |-> state.last_message ]

\* Tournament.from_dict of a saved tournament: int(data.get("entry_fee")) is
\* evaluated whenever the key is there, and int(None) raises TypeError
TournamentFromJson(data) ==
    IF "entry_fee" \in DOMAIN data /\ IsNone(data.entry_fee)
    THEN [ raised |-> Some("TypeError"), value |-> None ]
    ELSE [ raised |-> None,
           value |-> Some(TournamentFromDict(
                        [ k \in DOMAIN data |-> IF k = "entry_fee" THEN data[k][1] ELSE data[k] ])) ]

\* Season.from_dict: raises what a tournament raises
SeasonFromDict(data) ==
    LET loaded == ListOf([ i \in 1..Len(Get(data, "tournaments", <<>>)) |->
                             TournamentFromJson(data.tournaments[i]) ])
    IN  IF \E i \in 1..Len(loaded) : ~IsNone(loaded[i].raised)
        THEN [ raised |-> Some("TypeError"), value |-> None ]
        ELSE [ raised |-> None,
               value |-> Some([ current_week |-> Get(data, "current_week", 1),
                                total_weeks |-> data.total_weeks,
                                tournaments |-> ListOf([ i \in 1..Len(loaded) |-> loaded[i].value[1] ]) ]) ]

\* LedgerEntry.from_dict
LedgerEntryFromDict(data) ==
    LedgerEntry(data.week, data.action, data.description,
                Get(data, "money_delta", 0),
                Get(data, "fatigue_physical_delta", Get(data, "fatigue_delta", 0)),
                Get(data, "fatigue_mental_delta", 0),
                Get(data, "reputation_delta", 0),
                Get(data, "motivation_delta", 0),
                Get(data, "skill_changes", <<>>))

\* TournamentResult.from_dict: a null round score stays null
TournamentResultFromDict(data) ==
    [ week |-> Get(data, "week", 0),
      tournament_name |-> data.tournament_name,
      position |-> data.position,
      missed_cut |-> Get(data, "missed_cut", FALSE),
      performance |-> Get(data, "performance", 0),
      entry_fee |-> Get(data, "entry_fee", 0),
      prize_money |-> Get(data, "prize_money", 0),
      net_money |-> Get(data, "net_money", 0),
      reputation_delta |-> Get(data, "reputation_delta", 0),
      motivation_delta |-> Get(data, "motivation_delta", 0),
      message |-> Get(data, "message", ""),
      round_scores |-> ListOf([ i \in 1..Len(Get(data, "round_scores", <<>>)) |->
                                  IF IsNone(data.round_scores[i]) THEN None
                                  ELSE Some(data.round_scores[i][1]) ]) ]

\* SeasonPlayer.from_dict
SeasonPlayerFromDict(data) ==
    [ player_id |-> data.player_id, name |-> data.name,
      base_skill |-> Get(data, "base_skill", 50000),
      earnings |-> Get(data, "earnings", 0), points |-> Get(data, "points", 0),
      events_played |-> Get(data, "events_played", 0),
      cuts_made |-> Get(data, "cuts_made", 0), wins |-> Get(data, "wins", 0),
      last_result |-> Get(data, "last_result", None) ]

\* PlayerSeasonStats.from_dict
PlayerSeasonStatsFromDict(data) ==
    [ player_id |-> Get(data, "player_id", "USER"),
      earnings |-> Get(data, "earnings", 0), points |-> Get(data, "points", 0),
      events_played |-> Get(data, "events_played", 0),
      cuts_made |-> Get(data, "cuts_made", 0), wins |-> Get(data, "wins", 0),
      last_result |-> Get(data, "last_result", None) ]

\* SimulationState.from_dict
StateFromDict(data) ==
    LET season == SeasonFromDict(data.season)
    IN  IF ~IsNone(season.raised) THEN [ raised |-> season.raised, value |-> None ]
        ELSE [ raised |-> None,
               value |-> Some(
                 [ golfer |-> GolferFromDict(data.golfer),
                   season |-> season.value[1],
                   ledger |-> ListOf([ i \in 1..Len(Get(data, "ledger", <<>>)) |->
                                         LedgerEntryFromDict(data.ledger[i]) ]),
                   last_tournament_result |->
                       IF IsNone(Get(data, "last_tournament_result", None)) THEN None
                       ELSE Some(TournamentResultFromDict(data.last_tournament_result[1])),
                   season_players |-> ListOf([ i \in 1..Len(Get(data, "season_players", <<>>)) |->
                                                 SeasonPlayerFromDict(data.season_players[i]) ]),
                   player_stats |->
                       IF IsNone(Get(data, "player_stats", None)) THEN None
                       ELSE Some(PlayerSeasonStatsFromDict(data.player_stats[1])),
                   season_rankings |-> Get(data, "season_rankings", <<>>),
                   season_results |-> ListOf([ i \in 1..Len(Get(data, "season_results", <<>>)) |->
                                                 TournamentResultFromDict(data.season_results[i]) ]),
                   season_summary |-> Get(data, "season_summary", None),
                   last_message |-> Get(data, "last_message", "") ]) ]

\* load_state when state_path exists: the saved document read back
LoadState(saved) == StateFromDict(StateToDict(saved[1]))

----------------------------------------------------------------------------
(* SimulationEngine (src/core/simulation.py): helpers *)

fatigue_floor == 0
fatigue_ceiling == 100
motivation_floor == 0
motivation_ceiling == 100
\* _ensure_season_players: target
target == 199
\* _simulate_tournament: par_per_round, rounds, field_size, cut_count
par_per_round == 72
rounds == 4
field_size == 200
cut_count == 80
\* _append_ledger: the number of entries kept
ledger_keep == 50

BoundedFatigue(value) == Min(fatigue_ceiling, Max(fatigue_floor, value))

\* _adjust_motivation: the golfer after it; it returns the actual change,
\* AdjustMotivation(golfer, delta).motivation - golfer.motivation
AdjustMotivation(golfer, delta) ==
    [golfer EXCEPT !.motivation =
        Min(motivation_ceiling, Max(motivation_floor, golfer.motivation + delta))]

\* AppendLedger keeping ledger[:50], the oldest entries: C2 does not hold of it
AppendLedgerOldest(e, entry) ==
    [e EXCEPT !.state.ledger = FirstN(Append(@, entry), ledger_keep),
              !.appended = Append(@, entry)]

\* ledger[-50:] after the append; appended is the history of every entry handed
\* to _append_ledger since the state was created (not part of the program's state)
AppendLedger(e, entry) ==
    [e EXCEPT !.state.ledger = LastN(Append(@, entry), ledger_keep),
              !.appended = Append(@, entry)]

SeasonCompleted(e) == e.state.season.current_week > e.state.season.total_weeks

\* skills or {"generic": 52}
UserAverageSkill(golfer) ==
    IF golfer.skills = <<>> THEN 52000 ELSE AverageSkill_m(golfer.skills)

\* count new competitors numbered from start, drawn from the engine's generator r
GenerateSeasonPlayers(r, count, start, avg_skill) ==
    ListOf([ i \in 1..count |->
        SeasonPlayer("P" \o Pad3(start + i - 1), "Pro " \o Pad3(start + i - 1),
                     Max(40000, Min(70000, avg_skill + GaussAt(r, i - 1, 0, 4000)))) ])

\* _ensure_season_players drawing a fresh list of competitors on every call:
\* C27 does not hold of it
EnsureSeasonPlayersFresh(e) ==
    [e EXCEPT !.state.season_players =
                  GenerateSeasonPlayers(e.random, target, 1, UserAverageSkill(e.state.golfer)),
              !.random = Advance(@, target)]

EnsureSeasonPlayers(e) ==
    LET players == e.state.season_players
        avg_skill == UserAverageSkill(e.state.golfer)
        needed == target - Len(players)
    IN  IF players = <<>>
        THEN [e EXCEPT !.state.season_players =
                           GenerateSeasonPlayers(e.random, target, 1, avg_skill),
                       !.random = Advance(@, target)]
        ELSE IF Len(players) < target
        THEN [e EXCEPT !.state.season_players =
                           players \o GenerateSeasonPlayers(e.random, needed,
                                                            Len(players) + 1, avg_skill),
                       !.random = Advance(@, needed)]
        ELSE e

EnsurePlayerStats(e) ==
    IF IsNone(e.state.player_stats)
    THEN [e EXCEPT !.state.player_stats = Some(PlayerSeasonStats("USER"))]
    ELSE e

RankingRow(stats, name, is_user) ==
    [ player_id |-> stats.player_id, name |-> name,
      earnings |-> stats.earnings, points |-> stats.points,
      events |-> stats.events_played, cuts |-> stats.cuts_made, wins |-> stats.wins,
      last_result |-> IF IsNone(stats.last_result) THEN "-" ELSE stats.last_result[1],
      is_user |-> is_user ]

\* the rows of _build_season_rankings before the sort: the human first, then the
\* season players, for an engine whose player stats and season players are ensured
SeasonRows(e) ==
    << RankingRow(e.state.player_stats[1], e.state.golfer.name, TRUE) >>
    \o ListOf([ i \in 1..Len(e.state.season_players) |->
                  RankingRow(e.state.season_players[i], e.state.season_players[i].name, FALSE) ])

RankedRow(row, idx) ==
    [ player_id |-> row.player_id, name |-> row.name, earnings |-> row.earnings,
      points |-> row.points, events |-> row.events, cuts |-> row.cuts, wins |-> row.wins,
      last_result |-> row.last_result, is_user |-> row.is_user, rank |-> idx ]

\* SortRows as an ascending sort read backwards, which turns equal rows around:
\* C15 does not hold of it
SortRowsTiesReversed(rows) ==
    LET order == StableSort(ListOf([ i \in 1..Len(rows) |-> i ]),
                            ListOf([ i \in 1..Len(rows) |->
                                       << rows[i].points, rows[i].earnings >> ]))
    IN  ListOf([ idx \in 1..Len(rows) |->
                   RankedRow(rows[order[Len(rows) + 1 - idx]], idx) ])

\* sort(key=(points, earnings), reverse=True) keeps equal rows in their order;
\* then entry["rank"] = idx
SortRows(rows) ==
    LET order == StableSort(ListOf([ i \in 1..Len(rows) |-> i ]),
                            ListOf([ i \in 1..Len(rows) |->
                                       << -rows[i].points, -rows[i].earnings >> ]))
    IN  ListOf([ idx \in 1..Len(rows) |-> RankedRow(rows[order[idx]], idx) ])

BuildSeasonRankings(e) == SortRows(SeasonRows(e))

\* self.state.season_rankings = self._build_season_rankings(), which ensures the
\* player stats and the season players first
SetRankings(e) == [e EXCEPT !.state.season_rankings = BuildSeasonRankings(e)]
RebuildRankings(e) == SetRankings(EnsureSeasonPlayers(EnsurePlayerStats(e)))

----------------------------------------------------------------------------
(* SimulationEngine: the tournament resolver *)

\* The shares are binary doubles. Where purse * share is a whole number in
\* decimal, the double product can fall just short of it, and int() then gives
\* one less. LowShares are the ranks whose computed share (0.026 - 0.0006 * n,
\* 0.014 - 0.00018 * n) lies far enough below its decimal value for that to
\* happen with every purse; LowProducts are the other (rank, purse) pairs where
\* it happens, for the purses of the configurations.
LowShares == {22, 24, 26, 57, 75, 76, 80}
LowProducts == { <<6, 50000>>, <<6, 100000>>, <<58, 50000>>, <<58, 100000>> }

\* int(purse * share), share in hundred-thousandths
IntPurseShare(rank, purse, share) ==
    IF /\ purse * share > 0
       /\ (purse * share) % 100000 = 0
       /\ (rank \in LowShares \/ <<rank, purse>> \in LowProducts)
    THEN (purse * share) \div 100000 - 1
    ELSE TruncDiv(purse * share, 100000)

\* PrizeForRank paying the smallest share beyond rank 80 as well: C19 does not
\* hold of it
PrizeForRankNoCutoff(rank, purse) ==
    LET distribution == << 18000, 10900, 6900, 4900, 4100, 3600, 3300, 3100, 2900, 2700 >>
        share == IF rank \in DOMAIN distribution THEN distribution[rank]
                 ELSE IF rank <= 30 THEN Max(1500, 2600 - 60 * (rank - 10))
                 ELSE IF rank <= 80 THEN Max(400, 1400 - 18 * (rank - 30))
                 ELSE 400
    IN  IntPurseShare(rank, purse, share)

PrizeForRank(rank, purse) ==
    LET distribution == << 18000, 10900, 6900, 4900, 4100, 3600, 3300, 3100, 2900, 2700 >>
        share == IF rank \in DOMAIN distribution THEN distribution[rank]
                 ELSE IF rank <= 30 THEN Max(1500, 2600 - 60 * (rank - 10))
                 ELSE IF rank <= 80 THEN Max(400, 1400 - 18 * (rank - 30))
                 ELSE 0
    IN  IntPurseShare(rank, purse, share)

PointsForRank(rank) ==
    IF rank = 1 THEN 500
    ELSE IF rank = 2 THEN 320
    ELSE IF rank = 3 THEN 230
    ELSE IF rank = 4 THEN 180
    ELSE IF rank = 5 THEN 160
    ELSE IF rank <= 10 THEN 140 - (rank - 6) * 10
    ELSE IF rank <= 25 THEN 90 - (rank - 11) * 4
    ELSE IF rank <= 80 THEN Max(5, 34 - (rank - 26))
    ELSE 0

\* (prize, reputation_gain, position_label, points)
\* _rank_outcome without the floor of 1 for the ranks 6 to 25: C30 does not hold
\* of it
RankOutcomeUnfloored(rank, made_cut, purse, base_rep, cut) ==
    LET prize == PrizeForRank(rank, purse)
        points == PointsForRank(rank)
    IN  IF rank = 1 THEN <<prize, base_rep + 2, "1er", points>>
        ELSE IF rank = 2 THEN <<prize, base_rep + 1, "2e", points>>
        ELSE IF rank <= 5 THEN <<prize, base_rep, "Top 5", points>>
        ELSE IF rank <= 25 THEN <<prize, base_rep - 1, "Top 25", points>>
        ELSE IF made_cut /\ rank <= cut THEN <<prize, Max(0, base_rep - 2), "Top 80", points>>
        ELSE <<prize, -2, "MC", points>>

RankOutcome(rank, made_cut, purse, base_rep, cut) ==
    LET prize == PrizeForRank(rank, purse)
        points == PointsForRank(rank)
    IN  IF rank = 1 THEN <<prize, base_rep + 2, "1er", points>>
        ELSE IF rank = 2 THEN <<prize, base_rep + 1, "2e", points>>
        ELSE IF rank <= 5 THEN <<prize, base_rep, "Top 5", points>>
        ELSE IF rank <= 25 THEN <<prize, Max(1, base_rep - 1), "Top 25", points>>
        ELSE IF made_cut /\ rank <= cut THEN <<prize, Max(0, base_rep - 2), "Top 80", points>>
        ELSE <<prize, -2, "MC", points>>

\* the draw form_variance is the k-th after r
AiRoundExpectation(r, k, season_player, tournament, par) ==
    LET skill_adjust == ((season_player.base_skill - 55000) * 80) \div 1000
        difficulty_penalty == ((tournament.difficulty - 500) * 3000) \div 1000
        form_variance == GaussAt(r, k, 0, 600)
        expected == par * 1000 + difficulty_penalty - skill_adjust + form_variance
    IN  Max(65000, Min(88000, expected))

\* the drift of _build_ai_entry, the k-th draw after r
AiDrift(r, k, tournament) ==
    GaussAt(r, k, 200 + (tournament.difficulty * 300) \div 1000, 120)

\* raw_rounds of an AI entrant; it takes the draws k .. k+5 after r: the form
\* variance, the drift, then one per round
BuildAiEntry(r, k, season_player, tournament, par, nrounds) ==
    LET expectation == AiRoundExpectation(r, k, season_player, tournament, par)
        drift == AiDrift(r, k + 1, tournament)
        base_std == Max(1100, 2500 - (season_player.base_skill \div 35))
    IN  ListOf([ n \in 1..nrounds |->
            LET round_index == n - 1
                mean == expectation + round_index * drift
                std == base_std + round_index * 50
                score == Round_m(GaussAt(r, k + 2 + round_index, mean, std))
            IN  Max(60, Min(96, score)) ])

PlayerRoundExpectation(golfer, tournament, par) ==
    LET skills == IF golfer.skills = <<>> THEN << <<"generic", 50>> >> ELSE golfer.skills
        values == SkillValues(skills)
        average_skill == (SumSeq(values) * 1000) \div Len(values)
        peak_skill == 1000 * (CHOOSE v \in {values[i] : i \in 1..Len(values)} :
                                 \A i \in 1..Len(values) : values[i] <= v)
        floor_skill == 1000 * (CHOOSE v \in {values[i] : i \in 1..Len(values)} :
                                  \A i \in 1..Len(values) : values[i] >= v)
        skill_adjust == ((average_skill - 50000) * 70) \div 1000
        specialty_bonus == (Max(0, peak_skill - average_skill) * 30) \div 1000
        weakness_penalty == (Max(0, average_skill - floor_skill) * 15) \div 1000
        motivation_bonus == (golfer.motivation - 50) * 40
        form_bonus == (golfer.form - 50) * 30
        fatigue_penalty == golfer.fatigue_physical * 25 + golfer.fatigue_mental * 30
        difficulty_penalty == ((tournament.difficulty - 500) * 3500) \div 1000
        expected == par * 1000 + difficulty_penalty - skill_adjust - specialty_bonus
                    - motivation_bonus - form_bonus + weakness_penalty + fatigue_penalty
    IN  Max(64000, Min(85000, expected))

\* the human's four rounds; they take the draws k .. k+3 after r
GeneratePlayerRounds(r, k, golfer, tournament, par, nrounds) ==
    LET expectation == PlayerRoundExpectation(golfer, tournament, par)
        fatigue_drift == ((golfer.fatigue_physical + golfer.fatigue_mental) * 1000) \div 220
        round_std == 1600 + (golfer.fatigue_mental * 1000) \div 220
    IN  ListOf([ n \in 1..nrounds |->
            LET round_index == n - 1
                mean == expectation + round_index * fatigue_drift
                score == Round_m(GaussAt(r, k + round_index, mean, round_std))
            IN  Max(60, Min(95, score)) ])

FormatRelativeScore(delta) ==
    IF delta > 0 THEN "+" \o ToString(delta)
    ELSE IF delta < 0 THEN ToString(delta)
    ELSE "E"

RECURSIVE JoinSegments(_, _, _)
JoinSegments(scores, idx, par) ==
    IF idx > Len(scores) THEN ""
    ELSE (IF idx > 1 THEN ", " ELSE "")
         \o (IF IsNone(scores[idx]) THEN "R" \o ToString(idx) \o " --"
             ELSE "R" \o ToString(idx) \o " " \o ToString(scores[idx][1]) \o " ("
                  \o FormatRelativeScore(scores[idx][1] - par) \o ")")
         \o JoinSegments(scores, idx + 1, par)

FormatRoundSummary(scores, par) == "Scores: " \o JoinSegments(scores, 1, par) \o "."

\* the human's season stats after a played tournament
UpdatePlayerStats(stats, made_cut, prize, points, position) ==
    [stats EXCEPT !.events_played = @ + 1,
                  !.cuts_made = IF made_cut THEN @ + 1 ELSE @,
                  !.wins = IF position = "1er" THEN @ + 1 ELSE @,
                  !.earnings = @ + prize,
                  !.points = @ + points,
                  !.last_result = Some(position)]

\* UpdateAiStats that counts a win for the runner-up as well: C36 does not hold
\* of it
UpdateAiStatsTopTwo(season_player, entry) ==
    [season_player EXCEPT !.events_played = @ + 1,
                          !.cuts_made = IF entry.made_cut THEN @ + 1 ELSE @,
                          !.wins = IF entry.rank <= 2 THEN @ + 1 ELSE @,
                          !.earnings = @ + entry.prize,
                          !.points = @ + entry.points,
                          !.last_result = Some(entry.position_label)]

\* one competitor's season stats after a tournament, from its participant entry
UpdateAiStats(season_player, entry) ==
    [season_player EXCEPT !.events_played = @ + 1,
                          !.cuts_made = IF entry.made_cut THEN @ + 1 ELSE @,
                          !.wins = IF entry.rank = 1 THEN @ + 1 ELSE @,
                          !.earnings = @ + entry.prize,
                          !.points = @ + entry.points,
                          !.last_result = Some(entry.position_label)]

\* one participant of a resolution, as _build_ai_entry or the human's dict creates
\* it; season_player is the competitor's index in season_players, 0 for the human.
\* The keys the resolver adds later are present from the start.
Entry(raw_rounds, is_player, season_player) ==
    [ raw_rounds |-> raw_rounds, is_player |-> is_player, season_player |-> season_player,
      made_cut |-> FALSE, first_two |-> 0, total_raw |-> 0, display_rounds |-> <<>>,
      rounds_played |-> 0, total_played |-> 0, final_total |-> 0, tie_break |-> 0,
      rank |-> 0, prize |-> 0, reputation_gain |-> 0, position_label |-> "", points |-> 0 ]

\* participants: the AI pool in the order of season_players, each taking six
\* draws, then the human, when included, taking four
Participants(e, tournament, include_player) ==
    LET ai_slots == field_size - (IF include_player THEN 1 ELSE 0)
        ai_pool == FirstN(e.state.season_players, ai_slots)
    IN  ListOf([ i \in 1..Len(ai_pool) |->
            Entry(BuildAiEntry(e.random, 6 * (i - 1), ai_pool[i], tournament,
                               par_per_round, rounds), FALSE, i) ])
        \o (IF include_player
            THEN << Entry(GeneratePlayerRounds(e.random, 6 * Len(ai_pool), e.state.golfer,
                                               tournament, par_per_round, rounds), TRUE, 0) >>
            ELSE <<>>)

Indexes(p) == ListOf([ i \in 1..Len(p) |-> i ])

\* where each index stands in an order: Placement(order)[i] = order.index(i) + 1
Placement(order) ==
    StableSort(Indexes(order), ListOf([ k \in 1..Len(order) |-> << order[k] >> ]))

WithTotals(p) ==
    ListOf([ i \in 1..Len(p) |->
        [p[i] EXCEPT !.first_two = p[i].raw_rounds[1] + p[i].raw_rounds[2],
                     !.total_raw = SumSeq(p[i].raw_rounds)] ])

CutOrder(p) ==
    StableSort(Indexes(p), ListOf([ i \in 1..Len(p) |->
        << p[i].first_two, p[i].raw_rounds[2], p[i].raw_rounds[1] >> ]))

\* WithCut letting the entrant at index cut_count through as well: C16 does not
\* hold of it
WithCutInclusive(p) ==
    LET place == Placement(CutOrder(p))
    IN  ListOf([ i \in 1..Len(p) |-> [p[i] EXCEPT !.made_cut = place[i] - 1 <= cut_count] ])

\* entry["made_cut"] = idx < cut_count over enumerate(cut_order)
WithCut(p) ==
    LET place == Placement(CutOrder(p))
    IN  ListOf([ i \in 1..Len(p) |-> [p[i] EXCEPT !.made_cut = place[i] - 1 < cut_count] ])

\* Played without the 400 strokes that push a missed cut to the bottom: C20 does
\* not hold of it
PlayedNoPush(entry) ==
    IF entry.made_cut
    THEN [entry EXCEPT
            !.display_rounds = ListOf([ k \in 1..Len(entry.raw_rounds) |->
                                          Some(entry.raw_rounds[k]) ]),
            !.rounds_played = rounds,
            !.total_played = entry.total_raw,
            !.final_total = entry.total_raw,
            !.tie_break = entry.raw_rounds[4]]
    ELSE [entry EXCEPT
            !.display_rounds = << Some(entry.raw_rounds[1]), Some(entry.raw_rounds[2]),
                                  None, None >>,
            !.rounds_played = 2,
            !.total_played = entry.first_two,
            !.final_total = entry.first_two,
            !.tie_break = entry.raw_rounds[2]]

\* the rounds an entry played, lines 386-398: four after the cut, two before it
Played(entry) ==
    IF entry.made_cut
    THEN [entry EXCEPT
            !.display_rounds = ListOf([ k \in 1..Len(entry.raw_rounds) |->
                                          Some(entry.raw_rounds[k]) ]),
            !.rounds_played = rounds,
            !.total_played = entry.total_raw,
            !.final_total = entry.total_raw,
            !.tie_break = entry.raw_rounds[4]]
    ELSE [entry EXCEPT
            !.display_rounds = << Some(entry.raw_rounds[1]), Some(entry.raw_rounds[2]),
                                  None, None >>,
            !.rounds_played = 2,
            !.total_played = entry.first_two,
            !.final_total = entry.first_two + 400,
            !.tie_break = entry.raw_rounds[2]]

WithPlayed(p) == ListOf([ i \in 1..Len(p) |-> Played(p[i]) ])

FinalOrder(p) ==
    StableSort(Indexes(p), ListOf([ i \in 1..Len(p) |->
        << p[i].final_total, p[i].tie_break, p[i].raw_rounds[1] >> ]))

Placed(entry, placement, outcome) ==
    [entry EXCEPT !.rank = placement, !.prize = outcome[1],
                  !.reputation_gain = outcome[2], !.position_label = outcome[3],
                  !.points = outcome[4]]

\* the loop over enumerate(final_order, start=1)
WithOutcome(p, final_order, tournament) ==
    LET place == Placement(final_order)
    IN  ListOf([ i \in 1..Len(p) |->
            Placed(p[i], place[i],
                   RankOutcome(place[i], p[i].made_cut, tournament.purse,
                               tournament.reputation_reward, cut_count)) ])

Ranked(p, final_order, tournament) ==
    [ participants |-> WithOutcome(p, final_order, tournament), final_order |-> final_order ]

RankedField(p, tournament) == Ranked(p, FinalOrder(p), tournament)

\* the field of one resolution: participants with every key set, in the order of
\* their creation (the human, when included, last), and final_order as their indexes
TournamentField(e, tournament, include_player) ==
    RankedField(WithPlayed(WithCut(WithTotals(Participants(e, tournament, include_player)))),
                tournament)

\* base_message of a resolution the human played
PlayedMessage(tournament, position, total) ==
    LET score4 == " (" \o FormatRelativeScore(total - par_per_round * 4) \o ")."
    IN  IF position = "1er"
        THEN "Victoire au " \o tournament.name \o " avec " \o ToString(total) \o " coups" \o score4
        ELSE IF position = "2e"
        THEN "Podium au " \o tournament.name \o " avec " \o ToString(total) \o " coups" \o score4
        ELSE IF position = "Top 5"
        THEN "Top 5 au " \o tournament.name \o ". Total " \o ToString(total) \o score4
        ELSE IF position = "Top 25"
        THEN "Belle prestation au " \o tournament.name \o ". Total " \o ToString(total) \o score4
        ELSE IF position = "Top 80"
        THEN "Week-end complique mais cut franchi au " \o tournament.name
             \o ". Total " \o ToString(total) \o score4
        ELSE "Coupe manquee au " \o tournament.name \o " apres deux tours ("
             \o FormatRelativeScore(total - par_per_round * 2) \o ")."

\* the dict _simulate_tournament returns (without final_order)
SimulationResult(e, tournament, include_player, f) ==
    LET player_entry == f.participants[Len(f.participants)]
        winner_entry == f.participants[f.final_order[1]]
        winner_name == IF f.final_order # <<>> /\ winner_entry.season_player # 0
                       THEN e.state.season_players[winner_entry.season_player].name
                       ELSE "un adversaire"
        \* round(percentile * 100, 2), in hundredths
        performance == (((field_size - 1) * 10000 - (player_entry.rank - 1) * 10000) * 2
                        + (field_size - 1)) \div (2 * (field_size - 1))
    IN  IF include_player
        THEN [ include_player |-> TRUE,
               prize_money |-> player_entry.prize,
               reputation_gain |-> player_entry.reputation_gain,
               position |-> player_entry.position_label,
               missed_cut |-> ~player_entry.made_cut,
               performance |-> performance,
               round_summary |-> FormatRoundSummary(player_entry.display_rounds, par_per_round),
               round_scores |-> player_entry.display_rounds,
               total_strokes |-> player_entry.total_played,
               points |-> player_entry.points,
               message |-> PlayedMessage(tournament, player_entry.position_label,
                                         player_entry.total_played) ]
        ELSE [ include_player |-> FALSE,
               message |-> tournament.name \o " dispute sans vous. Victoire de "
                           \o winner_name \o ".",
               winner |-> winner_name ]

\* the engine after _update_player_stats (when the human played), _update_ai_stats,
\* the draws of the resolution and the rebuild of the rankings
SettleField(e, include_player, f) ==
    LET player_entry == f.participants[Len(f.participants)]
        e1 == EnsurePlayerStats(e)
        e2 == IF include_player
              THEN [e1 EXCEPT !.state.player_stats =
                       Some(UpdatePlayerStats(e1.state.player_stats[1], player_entry.made_cut,
                                              player_entry.prize, player_entry.points,
                                              player_entry.position_label))]
              ELSE e
        n_ai == Len(f.participants) - (IF include_player THEN 1 ELSE 0)
    IN  RebuildRankings(
            [e2 EXCEPT !.state.season_players =
                           ListOf([ j \in 1..Len(e.state.season_players) |->
                               IF j <= n_ai
                               THEN UpdateAiStats(e.state.season_players[j], f.participants[j])
                               ELSE e.state.season_players[j] ]),
                       !.random = Advance(@, 6 * n_ai + (IF include_player THEN rounds ELSE 0))])

\* what _simulate_tournament leaves and returns for the field f; resolved keeps the
\* field the call ranked (not part of the program's state)
\* the draws of a drift made while the field was built: for each AI entrant, in
\* the order of the field, which draw of the stream it was and its value (not
\* part of the program's state)
DriftDraws(r, tournament, n_ai) ==
    ListOf([ i \in 1..n_ai |->
        [ draw |-> r.calls + 6 * (i - 1) + 1,
          value |-> AiDrift(r, 6 * (i - 1) + 1, tournament) ] ])

Resolved(e, tournament, include_player, f) ==
    [ e |-> [SettleField(e, include_player, f) EXCEPT
                !.resolved = Some([ participants |-> f.participants,
                                    final_order |-> f.final_order,
                                    include_player |-> include_player,
                                    drifts |-> DriftDraws(e.random, tournament,
                                        Len(f.participants) - (IF include_player THEN 1 ELSE 0)) ])],
      result |-> SimulationResult(e, tournament, include_player, f),
      field |-> f ]

ResolveField(e, tournament, include_player) ==
    Resolved(e, tournament, include_player, TournamentField(e, tournament, include_player))

\* _simulate_tournament: the engine after it (e), the dict it returns (result) and
\* the participants it ranked (field)
SimulateTournament(e, tournament, include_player) ==
    ResolveField(EnsureSeasonPlayers(e), tournament, include_player)

----------------------------------------------------------------------------
(* SimulationEngine: the action handlers *)

\* f"{n:+d}"
Signed(n) == IF n >= 0 THEN "+" \o ToString(n) ELSE ToString(n)

\* HandleTraining charging the cost without recording it in the ledger entry: C21
\* does not hold of it
HandleTrainingUnrecordedCost(e, payload) ==
    LET rules == training_rules
        golfer == e.state.golfer
        named == Get(payload, "skill", "")
        keys == SkillKeys(golfer.skills)
        \* random.choice(list(skills.keys())) when no skill is named
        skill == IF named # "" THEN named ELSE keys[RandintAt(e.random, 0, 1, Len(keys))]
        skill_increase == Get(rules, "skill_increase", 2)
        physical_change == Get(rules, "physical_fatigue", Get(rules, "fatigue", 10))
        mental_change == Get(rules, "mental_fatigue", Max(physical_change \div 2, 0))
        cost == Get(rules, "cost", 0)
        golfer1 == [golfer EXCEPT
            !.skills = SkillSet(@, skill, SkillGet(@, skill, 0) + skill_increase),
            !.fatigue_physical = BoundedFatigue(@ + physical_change),
            !.fatigue_mental = BoundedFatigue(@ + mental_change),
            !.money = @ - cost,
            !.form = Min(100, @ + 1)]
        entry == LedgerEntry(e.state.season.current_week, "Entrainement",
                             "Seance de travail sur " \o skill, 0, physical_change,
                             mental_change, 0, 0, << <<skill, skill_increase>> >>)
        e1 == [e EXCEPT !.state.golfer = golfer1,
                        !.random = IF named # "" THEN @ ELSE Advance(@, 1)]
    IN  [AppendLedger(e1, entry) EXCEPT !.state.last_message =
            "Entrainement effectue sur " \o skill \o ". Competence +" \o ToString(skill_increase)
            \o ", fatigue physique +" \o ToString(physical_change)
            \o ", fatigue mentale +" \o ToString(mental_change) \o "."]

\* _handle_training: the skill, the fatigue, the cost, the form and the ledger entry
HandleTraining(e, payload) ==
    LET rules == training_rules
        golfer == e.state.golfer
        named == Get(payload, "skill", "")
        keys == SkillKeys(golfer.skills)
        \* random.choice(list(skills.keys())) when no skill is named
        skill == IF named # "" THEN named ELSE keys[RandintAt(e.random, 0, 1, Len(keys))]
        skill_increase == Get(rules, "skill_increase", 2)
        physical_change == Get(rules, "physical_fatigue", Get(rules, "fatigue", 10))
        mental_change == Get(rules, "mental_fatigue", Max(physical_change \div 2, 0))
        cost == Get(rules, "cost", 0)
        golfer1 == [golfer EXCEPT
            !.skills = SkillSet(@, skill, SkillGet(@, skill, 0) + skill_increase),
            !.fatigue_physical = BoundedFatigue(@ + physical_change),
            !.fatigue_mental = BoundedFatigue(@ + mental_change),
            !.money = @ - cost,
            !.form = Min(100, @ + 1)]
        entry == LedgerEntry(e.state.season.current_week, "Entrainement",
                             "Seance de travail sur " \o skill, -cost, physical_change,
                             mental_change, 0, 0, << <<skill, skill_increase>> >>)
        e1 == [e EXCEPT !.state.golfer = golfer1,
                        !.random = IF named # "" THEN @ ELSE Advance(@, 1)]
    IN  [AppendLedger(e1, entry) EXCEPT !.state.last_message =
            "Entrainement effectue sur " \o skill \o ". Competence +" \o ToString(skill_increase)
            \o ", fatigue physique +" \o ToString(physical_change)
            \o ", fatigue mentale +" \o ToString(mental_change) \o "."]

HandleRest(e) ==
    LET rules == rest_rules
        golfer == e.state.golfer
        physical_recovery == Get(rules, "physical_recovery", Get(rules, "fatigue_recovery", 15))
        mental_recovery == Get(rules, "mental_recovery", physical_recovery \div 2)
        form_gain == Get(rules, "form_gain", 7)
        previous_physical == golfer.fatigue_physical
        previous_mental == golfer.fatigue_mental
        golfer1 == [golfer EXCEPT
            !.fatigue_physical = BoundedFatigue(previous_physical - physical_recovery),
            !.fatigue_mental = BoundedFatigue(previous_mental - mental_recovery),
            !.form = Min(100, @ + form_gain)]
        entry == LedgerEntry(e.state.season.current_week, "Repos", "Semaine de repos", 0,
                             golfer1.fatigue_physical - previous_physical,
                             golfer1.fatigue_mental - previous_mental, 0, 0, <<>>)
    IN  [AppendLedger([e EXCEPT !.state.golfer = golfer1], entry) EXCEPT !.state.last_message =
            "Repos bien merite. Fatigue physique " \o ToString(previous_physical) \o "->"
            \o ToString(golfer1.fatigue_physical) \o ", fatigue mentale "
            \o ToString(previous_mental) \o "->" \o ToString(golfer1.fatigue_mental)
            \o ", forme +" \o ToString(form_gain) \o "."]

\* int(net_money * motivation_per_1000 / 1000) + int(max(gain, 0) * factor), or the
\* penalty; the two float rules are in thousandths
ComputeMotivationFromTournament(net_money, reputation_gain, rules) ==
    LET motivation_per_1000 == Get(rules, "motivation_per_1000", 600)
        loss_penalty == Get(rules, "motivation_loss_on_miss", 6)
        reputation_factor == Get(rules, "motivation_per_reputation", 500)
    IN  IF net_money > 0
        THEN TruncDiv(net_money * motivation_per_1000, 1000000)
             + TruncDiv(Max(reputation_gain, 0) * reputation_factor, 1000)
        ELSE -loss_penalty

\* the k-th skill's share of _apply_tournament_skill_decay: each positive skill,
\* in the order of the dict, takes one randint(1, 3)
PositiveBefore(skills, i) == Cardinality({ j \in 1..(i - 1) : skills[j][2] > 0 })
\* the decay without its minimum of one point: C32 does not hold of it
DecayedValueUnfloored(r, skills, i) ==
    LET value == skills[i][2]
        percent == RandintAt(r, PositiveBefore(skills, i), 1, 3)
        reduction == RoundHalfEven(value * percent, 100)
    IN  IF value <= 0 THEN value ELSE Max(0, value - reduction)

DecayedValue(r, skills, i) ==
    LET value == skills[i][2]
        percent == RandintAt(r, PositiveBefore(skills, i), 1, 3)
        reduction == Max(1, RoundHalfEven(value * percent, 100))
    IN  IF value <= 0 THEN value ELSE Max(0, value - reduction)

\* the skills after the decay; changes lists (skill, new - old) of every decayed skill
ApplyTournamentSkillDecay(r, skills) ==
    LET after == ListOf([ i \in 1..Len(skills) |-> << skills[i][1], DecayedValue(r, skills, i) >> ])
        idxs == SelectSeq(ListOf([ i \in 1..Len(skills) |-> i ]), LAMBDA i : skills[i][2] > 0)
    IN  [ skills |-> after,
          changes |-> ListOf([ n \in 1..Len(idxs) |->
                          << skills[idxs[n]][1], after[idxs[n]][2] - skills[idxs[n]][2] >> ]),
          draws |-> Len(idxs) ]

RECURSIVE DecayText(_, _)
DecayText(changes, idx) ==
    IF idx > Len(changes) THEN ""
    ELSE (IF idx > 1 THEN ", " ELSE "") \o changes[idx][1] \o " " \o Signed(changes[idx][2])
         \o DecayText(changes, idx + 1)

AugmentTournamentMessage(base, entry_fee, net_money) ==
    IF entry_fee <= 0 THEN base
    ELSE base \o " Frais d'inscription " \o ToString(entry_fee) \o " credits. Resultat net "
         \o Signed(net_money) \o " credits."

\* every message handed to these two ends with a full stop
AddResultToMessage(base, position) ==
    IF position = "" THEN base ELSE base \o " Resultat: " \o position \o "."
AppendRoundSummary(base, summary) ==
    IF summary = "" THEN base ELSE base \o " " \o summary


TournamentResult(week, tournament_name, position, missed_cut, performance, entry_fee, prize_money, net_money, reputation_delta, motivation_delta, message, round_scores) ==
    [ week |-> week, tournament_name |-> tournament_name, position |-> position,
      missed_cut |-> missed_cut, performance |-> performance, entry_fee |-> entry_fee,
      prize_money |-> prize_money, net_money |-> net_money,
      reputation_delta |-> reputation_delta, motivation_delta |-> motivation_delta,
      message |-> message, round_scores |-> round_scores ]

\* the end of _handle_tournament: the decay's text, the TournamentResult, the
\* ledger entry and the engine's flag
RecordTournament(e, week, tournament, simulation, entry_fee, net_money, physical_fatigue, mental_fatigue, actual_motivation_delta, message, golfer, decay) ==
    LET final_message == IF decay.changes # <<>>
                         THEN message \o " Competences ajustees: "
                              \o DecayText(decay.changes, 1) \o "."
                         ELSE message
        result_record == TournamentResult(week, tournament.name, simulation.position,
            simulation.missed_cut, simulation.performance, entry_fee,
            simulation.prize_money, net_money, simulation.reputation_gain,
            actual_motivation_delta, final_message, simulation.round_scores)
        entry == LedgerEntry(week, "Tournoi", final_message, net_money, physical_fatigue,
                             mental_fatigue, simulation.reputation_gain,
                             actual_motivation_delta, decay.changes)
        e1 == [e EXCEPT
            !.state.golfer = [golfer EXCEPT !.skills = decay.skills],
            !.random = Advance(@, decay.draws),
            !.state.last_tournament_result = Some(result_record),
            !.state.season_results = Append(@, result_record)]
    IN  [AppendLedger(e1, entry) EXCEPT !.state.last_message = final_message,
                                        !.tournament_processed = TRUE]

\* _handle_tournament from the return of _simulate_tournament on (sim): the
\* rewards, the motivation, the messages, the skill decay, the result and the ledger
SettleTournament(week, tournament, entry_fee, physical_fatigue, mental_fatigue, sim) ==
    LET rules == tournament_rules
        simulation == sim.result
        prize_money == simulation.prize_money
        reputation_gain == simulation.reputation_gain
        net_money == prize_money - entry_fee
        form1 == Min(100, sim.e.state.golfer.form + Max(reputation_gain, 0))
        form_penalty_value == Min(5, Max(0, form1))
        golfer2 == [sim.e.state.golfer EXCEPT
            !.money = @ + prize_money,
            !.reputation = Max(0, @ + reputation_gain),
            !.form = IF form_penalty_value # 0 THEN Max(0, form1 - form_penalty_value)
                     ELSE form1]
        motivation_delta == ComputeMotivationFromTournament(net_money, reputation_gain, rules)
        golfer3 == AdjustMotivation(golfer2, motivation_delta)
        actual_motivation_delta == golfer3.motivation - golfer2.motivation
        message1 == IF actual_motivation_delta # 0
                    THEN simulation.message \o " Motivation "
                         \o Signed(actual_motivation_delta) \o "."
                    ELSE simulation.message
        message2 == IF form_penalty_value # 0
                    THEN message1 \o " Forme -" \o ToString(form_penalty_value) \o "."
                    ELSE message1
        message3 == AppendRoundSummary(
                        AddResultToMessage(
                            AugmentTournamentMessage(message2, entry_fee, net_money),
                            simulation.position),
                        simulation.round_summary)
    IN  RecordTournament(sim.e, week, tournament, simulation, entry_fee, net_money,
                         physical_fatigue, mental_fatigue,
                         actual_motivation_delta, message3, golfer3,
                         ApplyTournamentSkillDecay(sim.e.random, golfer3.skills))

\* HandleTournament charging the global entry fee even when the tournament has
\* its own: C18 does not hold of it
HandleTournamentGlobalFee(e, payload) ==
    LET rules == tournament_rules
        week == e.state.season.current_week
        found == LookupTournament(e.state.season, week)
        physical_fatigue == Get(rules, "physical_fatigue", Get(rules, "fatigue", 18))
        mental_fatigue == Get(rules, "mental_fatigue", Max(physical_fatigue \div 2, 0))
        entry_fee == Max(Get(rules, "entry_fee", 0), 0)
        golfer1 == [e.state.golfer EXCEPT
            !.fatigue_physical = BoundedFatigue(@ + physical_fatigue),
            !.fatigue_mental = BoundedFatigue(@ + mental_fatigue),
            !.money = @ - entry_fee]
    IN  IF IsNone(found)
        THEN AppendLedger(
                [e EXCEPT !.state.last_message = "Aucun tournoi prevu cette semaine.",
                          !.state.last_tournament_result = None],
                LedgerEntry(week, "Tournoi", "Aucun tournoi dispute", 0, 0, 0, 0, 0, <<>>))
        ELSE SettleTournament(week, found[1], entry_fee, physical_fatigue, mental_fatigue,
                SimulateTournament([e EXCEPT !.state.golfer = golfer1], found[1], TRUE))

HandleTournament(e, payload) ==
    LET rules == tournament_rules
        week == e.state.season.current_week
        found == LookupTournament(e.state.season, week)
        physical_fatigue == Get(rules, "physical_fatigue", Get(rules, "fatigue", 18))
        mental_fatigue == Get(rules, "mental_fatigue", Max(physical_fatigue \div 2, 0))
        entry_fee == Max(IF IsNone(found[1].entry_fee) THEN Get(rules, "entry_fee", 0)
                         ELSE found[1].entry_fee[1], 0)
        golfer1 == [e.state.golfer EXCEPT
            !.fatigue_physical = BoundedFatigue(@ + physical_fatigue),
            !.fatigue_mental = BoundedFatigue(@ + mental_fatigue),
            !.money = @ - entry_fee]
    IN  IF IsNone(found)
        THEN AppendLedger(
                [e EXCEPT !.state.last_message = "Aucun tournoi prevu cette semaine.",
                          !.state.last_tournament_result = None],
                LedgerEntry(week, "Tournoi", "Aucun tournoi dispute", 0, 0, 0, 0, 0, <<>>))
        ELSE SettleTournament(week, found[1], entry_fee, physical_fatigue, mental_fatigue,
                SimulateTournament([e EXCEPT !.state.golfer = golfer1], found[1], TRUE))

HandleAgentChat(e, payload) ==
    LET rules == agent_chat_rules
        golfer == e.state.golfer
        motivation_delta == Get(payload, "motivation_delta", Get(rules, "motivation_boost", 6))
        mental_recovery == Get(payload, "mental_recovery", Get(rules, "mental_recovery", 5))
        golfer1 == AdjustMotivation(golfer, motivation_delta)
        actual_motivation_delta == golfer1.motivation - golfer.motivation
        previous_mental == golfer.fatigue_mental
        golfer2 == [golfer1 EXCEPT !.fatigue_mental = BoundedFatigue(previous_mental - mental_recovery)]
        mental_delta == golfer2.fatigue_mental - previous_mental
        entry == LedgerEntry(e.state.season.current_week, "Discussion", "Echange avec l'agent",
                             0, 0, mental_delta, 0, actual_motivation_delta, <<>>)
    IN  [AppendLedger([e EXCEPT !.state.golfer = golfer2], entry) EXCEPT !.state.last_message =
            "Discussion avec l'agent. Motivation "
            \o (IF actual_motivation_delta >= 0 THEN "+" ELSE "")
            \o ToString(actual_motivation_delta) \o ", fatigue mentale "
            \o ToString(previous_mental) \o "->" \o ToString(golfer2.fatigue_mental) \o "."]

----------------------------------------------------------------------------
(* SimulationEngine: week advance, season summary, public operations *)

\* RecordSkipped leaving the season's results as they were: C35 does not hold of it
RecordSkippedUnlisted(week, tournament, sim) ==
    LET message == sim.result.message
        summary == TournamentResult(week, tournament.name, "NP", FALSE, 0, 0, 0, 0, 0, 0,
                                    message, << None, None, None, None >>)
    IN  [sim.e EXCEPT
            !.tournament_processed = TRUE,
            !.state.last_tournament_result = Some(summary),
            !.state.last_message = IF @ # "" THEN @ \o " " \o message ELSE message]

\* _process_skipped_tournament from the return of _simulate_tournament on
RecordSkipped(week, tournament, sim) ==
    LET message == sim.result.message
        summary == TournamentResult(week, tournament.name, "NP", FALSE, 0, 0, 0, 0, 0, 0,
                                    message, << None, None, None, None >>)
    IN  [sim.e EXCEPT
            !.tournament_processed = TRUE,
            !.state.last_tournament_result = Some(summary),
            !.state.season_results = Append(@, summary),
            !.state.last_message = IF @ # "" THEN @ \o " " \o message ELSE message]

ProcessSkippedTournament(e) ==
    LET week == e.state.season.current_week
        found == LookupTournament(e.state.season, week)
    IN  IF e.tournament_processed THEN e
        ELSE IF IsNone(found) THEN e
        ELSE RecordSkipped(week, found[1], SimulateTournament(e, found[1], FALSE))

\* NextWeek that stops at the season's last week instead of stepping past it:
\* C34 does not hold of it
NextWeekCapped(e) ==
    [e EXCEPT !.state.season.current_week =
        IF @ >= e.state.season.total_weeks THEN e.state.season.total_weeks ELSE @ + 1]

\* the week's increment of _advance_week
NextWeek(e) ==
    [e EXCEPT !.state.season.current_week =
        IF @ >= e.state.season.total_weeks THEN e.state.season.total_weeks + 1 ELSE @ + 1]

\* AdvanceWeek incrementing the week before it resolves the skipped tournament:
\* C9 does not hold of it
AdvanceWeekFirst(e) == ProcessSkippedTournament(NextWeek(e))

AdvanceWeek(e) == NextWeek(ProcessSkippedTournament(e))

\* the bucket of _finalize_season_summary for one action name: the money deltas of
\* its ledger entries from idx on, as gains (delta >= 0), expenses (delta < 0,
\* negated) and net; "TOTAL" takes every entry
LedgerBucket(ledger, idx, action) ==
    LET delta == [ i \in 1..Len(ledger) |->
                     IF i >= idx /\ (action = "TOTAL" \/ ledger[i].action = action)
                     THEN ledger[i].money_delta ELSE 0 ]
    IN  [ gains |-> SumOver([ i \in 1..Len(ledger) |-> Max(delta[i], 0) ], 1, Len(ledger)),
          depenses |-> SumOver([ i \in 1..Len(ledger) |-> Max(-delta[i], 0) ], 1, Len(ledger)),
          net |-> SumOver(delta, 1, Len(ledger)) ]

SummaryTournament(result) ==
    [ week |-> result.week, tournament_name |-> result.tournament_name,
      position |-> result.position, message |-> result.message,
      round_scores |-> result.round_scores,
      total_strokes |-> SumSeq(ListOf([ i \in 1..Len(result.round_scores) |->
                          IF IsNone(result.round_scores[i]) THEN 0 ELSE result.round_scores[i][1] ])),
      net_money |-> result.net_money, prize_money |-> result.prize_money ]

\* the summary _finalize_season_summary stores, for an engine whose rankings were
\* just rebuilt
SeasonSummary(e) ==
    LET rankings == e.state.season_rankings
        results == e.state.season_results
        by_week == StableSort(ListOf([ i \in 1..Len(results) |-> i ]),
                              ListOf([ i \in 1..Len(results) |-> << results[i].week >> ]))
        ledger == e.state.ledger
        total == LedgerBucket(ledger, 1, "TOTAL")
        user_rows == SelectSeq(rankings, LAMBDA row : row.is_user)
    IN  [ rankings |-> rankings,
          tournaments |-> ListOf([ i \in 1..Len(results) |->
                                     SummaryTournament(results[by_week[i]]) ]),
          ledger_totals |->
              [ a \in { ledger[i].action : i \in 1..Len(ledger) } \cup {"TOTAL"} |->
                  IF a = "TOTAL"
                  THEN [gains |-> total.gains, depenses |-> total.depenses,
                        net |-> total.gains - total.depenses]
                  ELSE LedgerBucket(ledger, 1, a) ],
          player |-> [ stats |-> e.state.player_stats[1],
                       rank |-> IF user_rows = <<>> THEN None
                                ELSE Some(user_rows[1].rank) ] ]

SetSeasonSummary(e) == [e EXCEPT !.state.season_summary = Some(SeasonSummary(e))]

\* FinalizeSeasonSummary without its guard, extending the tournaments it listed
\* before: C7 does not hold of it
FinalizeSeasonSummaryAgain(e) ==
    IF IsNone(e.state.season_summary) THEN SetSeasonSummary(RebuildRankings(e))
    ELSE [e EXCEPT !.state.season_summary =
            Some([@[1] EXCEPT !.tournaments = @ \o SeasonSummary(e).tournaments])]

FinalizeSeasonSummary(e) ==
    IF ~IsNone(e.state.season_summary) THEN e
    ELSE SetSeasonSummary(RebuildRankings(e))

SeasonOverMessage == "La saison est terminee. Veuillez redemarrer pour continuer."
ActionKinds == {"train", "rest", "tournament", "agent_chat"}

\* skip_advance = bool(payload.pop("skip_advance", False))
SkipAdvance(payload) == Get(payload, "skip_advance", FALSE)

\* CloseSeason finalizing under the tournament branch only: C8 does not hold of it
CloseSeasonTournamentOnly(e, action) ==
    IF SeasonCompleted(e) /\ action = "tournament"
    THEN FinalizeSeasonSummary(
            IF e.state.last_message # ""
            THEN [e EXCEPT !.state.last_message = @ \o " Saison terminee !"]
            ELSE e)
    ELSE e

\* perform_action, lines 79-82: the season's end after the action
CloseSeason(e, action) ==
    IF SeasonCompleted(e)
    THEN FinalizeSeasonSummary(
            IF action = "tournament" /\ e.state.last_message # ""
            THEN [e EXCEPT !.state.last_message = @ \o " Saison terminee !"]
            ELSE e)
    ELSE e

\* repository.save_state(self.state)
Save(e) == SaveState(e, e.state)

\* AfterHandler advancing the week after an agent_chat too: C11 does not hold of it
AfterHandlerChatAdvances(e, action, payload) ==
    Save(RebuildRankings(CloseSeason(
        IF ~SkipAdvance(payload) THEN AdvanceWeek(e) ELSE e,
        action)))

\* AfterHandler ignoring skip_advance: C5 does not hold of it
AfterHandlerNoSkip(e, action, payload) ==
    Save(RebuildRankings(CloseSeason(
        IF action # "agent_chat" THEN AdvanceWeek(e) ELSE e,
        action)))

\* perform_action, lines 77-85, on the engine the handler left
AfterHandler(e, action, payload) ==
    Save(RebuildRankings(CloseSeason(
        IF action # "agent_chat" /\ ~SkipAdvance(payload) THEN AdvanceWeek(e) ELSE e,
        action)))

\* perform_action, lines 64-73, for a known action
Handle(e, action, payload) ==
    IF action = "train" THEN HandleTraining(e, payload)
    ELSE IF action = "rest" THEN HandleRest(e)
    ELSE IF action = "tournament" THEN HandleTournament(e, payload)
    ELSE HandleAgentChat(e, payload)

\* PerformAction rejecting an unknown kind only after the week's advance and the
\* save: C4 does not hold of it
PerformActionLateCheck(e, action, payload) ==
    LET e0 == [e EXCEPT !.tournament_processed = FALSE, !.resolved = None]
    IN  IF SeasonCompleted(e0)
        THEN [ e |-> FinalizeSeasonSummary([e0 EXCEPT !.state.last_message = SeasonOverMessage]),
               raised |-> None ]
        ELSE IF action \notin ActionKinds
        THEN [ e |-> AfterHandler(e0, action, payload),
               raised |-> Some("ValueError: Action inconnue: " \o action) ]
        ELSE [ e |-> AfterHandler(Handle(e0, action, payload), action, payload),
               raised |-> None ]

\* PerformAction without the season-over guard: C6 does not hold of it
PerformActionUnguarded(e, action, payload) ==
    LET e0 == [e EXCEPT !.tournament_processed = FALSE, !.resolved = None]
    IN  IF action \notin ActionKinds
        THEN [ e |-> e0, raised |-> Some("ValueError: Action inconnue: " \o action) ]
        ELSE [ e |-> AfterHandler(Handle(e0, action, payload), action, payload),
               raised |-> None ]

\* perform_action: the engine after the call and how the call ended (None: it
\* returned the state; Some(x): it raised x)
PerformAction(e, action, payload) ==
    LET e0 == [e EXCEPT !.tournament_processed = FALSE, !.resolved = None]
    IN  IF SeasonCompleted(e0)
        THEN [ e |-> FinalizeSeasonSummary([e0 EXCEPT !.state.last_message = SeasonOverMessage]),
               raised |-> None ]
        ELSE IF action \notin ActionKinds
        THEN [ e |-> e0, raised |-> Some("ValueError: Action inconnue: " \o action) ]
        ELSE [ e |-> AfterHandler(Handle(e0, action, payload), action, payload),
               raised |-> None ]

\* reset: the repository regenerates and saves the initial state, then the engine
\* completes it
\* reset that keeps the competitors of the career it ends, statistics included:
\* C26 does not hold of it
ResetKeepingPlayers(e) ==
    LET e1 == SaveState([e EXCEPT !.state = [CreateInitialState EXCEPT
                                                 !.season_players = e.state.season_players],
                                  !.appended = <<>>],
                        CreateInitialState)
        e2 == RebuildRankings(e1)
    IN  [e2 EXCEPT !.state.season_results = <<>>,
                   !.state.season_summary = None,
                   !.tournament_processed = FALSE,
                   !.resolved = None]

Reset(e) ==
    LET e1 == SaveState([e EXCEPT !.state = CreateInitialState, !.appended = <<>>],
                        CreateInitialState)
        e2 == RebuildRankings(e1)
    IN  [e2 EXCEPT !.state.season_results = <<>>,
                   !.state.season_summary = None,
                   !.tournament_processed = FALSE,
                   !.resolved = None]

\* SimulationEngine(repository, seed) on a repository whose state file does not
\* exist yet: load_state creates and saves the initial state
NewEngine(seed, entropy) ==
    LET e0 == [ state |-> CreateInitialState,
                random |-> NewRandom(seed, entropy),
                tournament_processed |-> FALSE,
                saved |-> Some(CreateInitialState),
                appended |-> <<>>,
                resolved |-> None ]
    IN  RebuildRankings(e0)

----------------------------------------------------------------------------
(* The state machine *)

\* the (configuration, seed) pairs Spec starts from
Scenarios ==
    << <<1, Some(1)>>, <<1, Some(2)>>, <<2, Some(2)>>, <<3, Some(1)>>, <<4, Some(1)>>,
       <<5, None>>, <<6, Some(1)>>, <<7, Some(1)>> >>

NoTwin == <<>>
NoWorkers == <<>>
NoCall == [ op |-> "new", action |-> "", payload |-> <<>>, raised |-> None, n |-> 0,
            seeds |-> <<>> ]

Init ==
    /\ \E i \in 1..Len(Scenarios), entropy \in Entropy :
        /\ config = Configs[Scenarios[i][1]]
        /\ engine = NewEngine(Scenarios[i][2], entropy)
        /\ call = [NoCall EXCEPT !.seeds = << Scenarios[i][2] >>]
    /\ twin = NoTwin
    /\ workers = NoWorkers

\* the payloads of the API's ActionRequest
TrainSkills == {"", "driving", "bunker"}
ChatPayloads == { <<>>, [motivation_delta |-> -7, mental_recovery |-> -4] }
UnknownKinds == {"putt"}
WithSkip(payload, skip) == IF skip THEN payload @@ [skip_advance |-> TRUE] ELSE payload

Called(op, action, payload, raised) ==
    [call EXCEPT !.op = op, !.action = action, !.payload = payload, !.raised = raised,
                 !.n = @ + 1]

\* one perform_action call on the engine
Perform(action, payload) ==
    /\ \E r \in { PerformAction(engine, action, payload) } :
           /\ engine' = r.e
           /\ call' = Called("perform_action", action, payload, r.raised)
    /\ UNCHANGED <<config, twin, workers>>

Train(skill, skip) ==
    /\ call.n < MaxCalls
    /\ Perform("train", WithSkip(IF skill = "" THEN <<>> ELSE [skill |-> skill], skip))
Rest(skip) ==
    /\ call.n < MaxCalls
    /\ Perform("rest", WithSkip(<<>>, skip))
Tournament(skip) ==
    /\ call.n < MaxCalls
    /\ Perform("tournament", WithSkip(<<>>, skip))
AgentChat(payload) ==
    /\ call.n < MaxCalls
    /\ Perform("agent_chat", payload)
Unknown(kind) ==
    /\ call.n < MaxCalls
    /\ Perform(kind, <<>>)

\* one reset call on the engine
ResetEngine ==
    /\ engine' = Reset(engine)
    /\ call' = Called("reset", "", <<>>, None)
    /\ UNCHANGED <<config, twin, workers>>

ResetCall ==
    /\ call.n < MaxCalls
    /\ ResetEngine

Next ==
    \/ \E skill \in TrainSkills, skip \in BOOLEAN : Train(skill, skip)
    \/ \E skip \in BOOLEAN : Rest(skip)
    \/ \E skip \in BOOLEAN : Tournament(skip)
    \/ \E payload \in ChatPayloads : AgentChat(payload)
    \/ \E kind \in UnknownKinds : Unknown(kind)
    \/ ResetCall

Spec == Init /\ [][Next]_vars

----------------------------------------------------------------------------
(* The ledger over a long run: one career of two weeks, up to its end, more
   appends than the ledger keeps *)

InitLedger ==
    /\ config = TestConfig
    /\ \E entropy \in Entropy : engine = NewEngine(Some(1), entropy)
    /\ call = [NoCall EXCEPT !.seeds = << Some(1) >>]
    /\ twin = NoTwin
    /\ workers = NoWorkers

LedgerChat ==
    /\ call.n < MaxLedgerCalls
    /\ Len(engine.appended) < MaxAppends
    /\ ~SeasonCompleted(engine)
    /\ Perform("agent_chat", <<>>)

LedgerTrain ==
    /\ call.n < MaxLedgerCalls
    /\ Len(engine.appended) < MaxAppends
    /\ engine.state.season.current_week < MaxLedgerWeek
    /\ Perform("train", [skill |-> "putting"])

\* the week's tournament played as the first action of a career, the week kept
\* for what follows
LedgerTournament ==
    /\ call.n < MaxLedgerCalls
    /\ engine.appended = <<>>
    /\ engine.state.season.current_week < MaxLedgerWeek
    /\ Perform("tournament", [skip_advance |-> TRUE])

\* a reset once the ledger has dropped entries
LedgerReset ==
    /\ call.n < MaxLedgerCalls
    /\ Len(engine.appended) = MaxAppends
    /\ ResetEngine

\* the training session of the season's last week, which ends the season
LedgerFinish ==
    /\ call.n < MaxLedgerCalls
    /\ Len(engine.appended) < MaxAppends
    /\ engine.state.season.current_week = MaxLedgerWeek
    /\ Perform("train", [skill |-> "putting"])

NextLedger == LedgerChat \/ LedgerTrain \/ LedgerTournament \/ LedgerReset \/ LedgerFinish

SpecLedger == InitLedger /\ [][NextLedger]_vars

----------------------------------------------------------------------------
(* Two engines, each on a repository of its own, given the same calls *)

\* the seeds of the two engines
TwinSeeds ==
    << <<Some(1), Some(1)>>, <<Some(2), Some(2)>>, <<Some(1), Some(2)>>, <<None, None>> >>
TwinConfigs == {1, 3}

InitTwin ==
    \E c \in TwinConfigs, i \in 1..Len(TwinSeeds), entropy \in Entropy \X Entropy :
        /\ config = Configs[c]
        /\ engine = NewEngine(TwinSeeds[i][1], entropy[1])
        /\ twin = NewEngine(TwinSeeds[i][2], entropy[2])
        /\ call = [NoCall EXCEPT !.seeds = TwinSeeds[i]]
        /\ workers = NoWorkers

TwinPerform(action, payload) ==
    /\ call.n < MaxTwinCalls
    /\ \E r \in { PerformAction(engine, action, payload) },
          t \in { PerformAction(twin, action, payload) } :
           /\ engine' = r.e
           /\ twin' = t.e
           /\ call' = Called("perform_action", action, payload, r.raised)
    /\ UNCHANGED <<config, workers>>

TwinReset ==
    /\ call.n < MaxTwinCalls
    /\ engine' = Reset(engine)
    /\ twin' = Reset(twin)
    /\ call' = Called("reset", "", <<>>, None)
    /\ UNCHANGED <<config, workers>>

NextTwin ==
    \/ \E skip \in BOOLEAN : TwinPerform("train", WithSkip(<<>>, skip))
    \/ TwinPerform("rest", <<>>)
    \/ \E skip \in BOOLEAN : TwinPerform("tournament", WithSkip(<<>>, skip))
    \/ TwinPerform("agent_chat", <<>>)
    \/ TwinReset

SpecTwin == InitTwin /\ [][NextTwin]_vars

----------------------------------------------------------------------------
(* The hosting layer (src/routes/api.py): requests on one session's engine *)

\* The endpoints are plain functions, so the server runs each request on a
\* thread of its pool; SessionManager's lock is held only while the session
\* table is read.  A thread can be preempted between any two of the steps below.

MaxRequests == 1
WorkerIds == {1, 2}
HostPayloads == { <<>>, [motivation_delta |-> -7, mental_recovery |-> -4] }

IdleWorker ==
    [ pc |-> "idle", payload |-> <<>>, actual_motivation_delta |-> 0,
      previous_mental |-> 0, bounded |-> 0, entry |-> None, kept |-> <<>>, served |-> 0 ]

InitHost ==
    /\ config = TestConfig
    /\ \E entropy \in Entropy : engine = NewEngine(None, entropy)
    /\ twin = NoTwin
    /\ workers = [ w \in WorkerIds |-> IdleWorker ]
    /\ call = [NoCall EXCEPT !.seeds = << None >>]

\* post_session_action up to the handler: the engine is looked up and
\* perform_action starts (the flag, the season test)
HostReceive(w, payload) ==
    /\ workers[w].pc = "idle"
    /\ workers[w].served < MaxRequests
    /\ \E e0 \in { [engine EXCEPT !.tournament_processed = FALSE, !.resolved = None] } :
        IF SeasonCompleted(e0)
        THEN /\ engine' = FinalizeSeasonSummary([e0 EXCEPT !.state.last_message = SeasonOverMessage])
             /\ workers' = [workers EXCEPT ![w].served = @ + 1]
             /\ call' = Called("perform_action", "agent_chat", payload, None)
        ELSE /\ engine' = e0
             /\ workers' = [workers EXCEPT ![w].pc = "motivate", ![w].payload = payload]
             /\ UNCHANGED call
    /\ UNCHANGED <<config, twin>>

\* _handle_agent_chat: the motivation is adjusted, the mental fatigue is read
\* and its new value computed
HostMotivate(w) ==
    /\ workers[w].pc = "motivate"
    /\ LET rules == agent_chat_rules
           payload == workers[w].payload
           golfer == engine.state.golfer
           motivation_delta == Get(payload, "motivation_delta", Get(rules, "motivation_boost", 6))
           mental_recovery == Get(payload, "mental_recovery", Get(rules, "mental_recovery", 5))
           golfer1 == AdjustMotivation(golfer, motivation_delta)
       IN  /\ engine' = [engine EXCEPT !.state.golfer = golfer1]
           /\ workers' = [workers EXCEPT
                  ![w].pc = "write",
                  ![w].actual_motivation_delta = golfer1.motivation - golfer.motivation,
                  ![w].previous_mental = golfer.fatigue_mental,
                  ![w].bounded = BoundedFatigue(golfer.fatigue_mental - mental_recovery)]
    /\ UNCHANGED <<config, twin, call>>

\* _handle_agent_chat: the computed mental fatigue is stored and the ledger
\* entry is built
HostWrite(w) ==
    /\ workers[w].pc = "write"
    /\ engine' = [engine EXCEPT !.state.golfer.fatigue_mental = workers[w].bounded]
    /\ workers' = [workers EXCEPT
           ![w].pc = "append",
           ![w].entry = Some(LedgerEntry(engine.state.season.current_week, "Discussion",
                                         "Echange avec l'agent", 0, 0,
                                         workers[w].bounded - workers[w].previous_mental, 0,
                                         workers[w].actual_motivation_delta, <<>>))]
    /\ UNCHANGED <<config, twin, call>>

\* _append_ledger: self.state.ledger.append(entry)
HostAppend(w) ==
    /\ workers[w].pc = "append"
    /\ engine' = [engine EXCEPT !.state.ledger = Append(@, workers[w].entry[1]),
                                !.appended = Append(@, workers[w].entry[1])]
    /\ workers' = [workers EXCEPT ![w].pc = "slice"]
    /\ UNCHANGED <<config, twin, call>>

\* _append_ledger: self.state.ledger[-50:] is evaluated
HostSlice(w) ==
    /\ workers[w].pc = "slice"
    /\ workers' = [workers EXCEPT ![w].pc = "assign",
                                  ![w].kept = LastN(engine.state.ledger, ledger_keep)]
    /\ UNCHANGED <<config, engine, twin, call>>

\* _append_ledger: the slice is stored as self.state.ledger
HostAssign(w) ==
    /\ workers[w].pc = "assign"
    /\ engine' = [engine EXCEPT !.state.ledger = workers[w].kept]
    /\ workers' = [workers EXCEPT ![w].pc = "finish", ![w].kept = <<>>]
    /\ UNCHANGED <<config, twin>>
    /\ UNCHANGED call

\* the message of _handle_agent_chat, then the end of perform_action: rankings,
\* save, and the state returned to the endpoint
HostFinish(w) ==
    /\ workers[w].pc = "finish"
    /\ \E e1 \in { [engine EXCEPT !.state.last_message =
                       "Discussion avec l'agent. Motivation "
                       \o (IF workers[w].actual_motivation_delta >= 0 THEN "+" ELSE "")
                       \o ToString(workers[w].actual_motivation_delta) \o ", fatigue mentale "
                       \o ToString(workers[w].previous_mental) \o "->"
                       \o ToString(engine.state.golfer.fatigue_mental) \o "."] } :
           engine' = AfterHandler(e1, "agent_chat", workers[w].payload)
    /\ call' = Called("perform_action", "agent_chat", workers[w].payload, None)
    /\ workers' = [workers EXCEPT ![w] = [IdleWorker EXCEPT !.served = workers[w].served + 1]]
    /\ UNCHANGED <<config, twin>>

\* reset_session_state: engine.reset() on the request's thread
HostReset(w) ==
    /\ workers[w].pc = "idle"
    /\ workers[w].served < MaxRequests
    /\ engine' = Reset(engine)
    /\ call' = Called("reset", "", <<>>, None)
    /\ workers' = [workers EXCEPT ![w].served = @ + 1]
    /\ UNCHANGED <<config, twin>>

NextHost ==
    \E w \in WorkerIds :
        \/ \E payload \in HostPayloads : HostReceive(w, payload)
        \/ HostMotivate(w)
        \/ HostWrite(w)
        \/ HostAppend(w)
        \/ HostSlice(w)
        \/ HostAssign(w)
        \/ HostFinish(w)
        \/ HostReset(w)

SpecHost == InitHost /\ [][NextHost]_vars

----------------------------------------------------------------------------
(* Claims C1 - C39 *)

\* the step is a perform_action call (a stuttering step is none)
PerformStep == call'.n = call.n + 1 /\ call'.op = "perform_action"

\* C1: after any sequence of perform_action calls, whatever the integer rule
\* values, fatigue_physical, fatigue_mental, form and motivation are in [0,100]
\* and reputation is >= 0
C1_AttributesInRange ==
    /\ engine.state.golfer.fatigue_physical \in 0..100
    /\ engine.state.golfer.fatigue_mental \in 0..100
    /\ engine.state.golfer.form \in 0..100
    /\ engine.state.golfer.motivation \in 0..100
    /\ engine.state.golfer.reputation >= 0

\* C2: the ledger holds at most 50 entries, it is exactly the last min(50, n) of
\* the n entries appended since the last reset, in append order, and the week
\* numbers of its entries are non-decreasing
C2_LedgerKeepsLast ==
    LET ledger == engine.state.ledger
        n == Len(engine.appended)
    IN  /\ Len(ledger) <= 50
        /\ Len(ledger) = Min(50, n)
        /\ \A i \in 1..Len(ledger) : ledger[i] = engine.appended[n - Len(ledger) + i]
        /\ \A i \in 1..(Len(ledger) - 1) : ledger[i].week <= ledger[i + 1].week

\* C2, its case: 52 entries were appended, of which the ledger dropped the two
\* oldest, and the kept ones span week 1 and week 2
C2_Witness ==
    /\ Len(engine.appended) = 52
    /\ Len(engine.state.ledger) = 50
    /\ engine.state.ledger[1] = engine.appended[3]
    /\ engine.state.ledger[1].week = 1
    /\ engine.state.ledger[50].week = 2

C4_UnknownActionRejected ==
    [][ (PerformStep /\ ~SeasonCompleted(engine) /\ call'.action \notin ActionKinds)
            => /\ ~IsNone(call'.raised)
               /\ engine'.state = engine.state
               /\ engine'.saved = engine.saved
               /\ engine'.random = engine.random
               /\ engine'.appended = engine.appended ]_vars

\* C4, its case: an unrecognized kind was rejected in a career that had already
\* recorded an action
C4_Witness ==
    /\ call.op = "perform_action"
    /\ call.action \notin ActionKinds
    /\ ~IsNone(call.raised)
    /\ ~SeasonCompleted(engine)
    /\ engine.state.ledger # <<>>

\* C5: in the ACTIVE state train, rest and tournament without the suppression
\* flag increase current_week by exactly one and with it leave current_week
\* unchanged; over any calls current_week never decreases and never exceeds
\* total_weeks + 1
C5_WeekAdvance ==
    [][ PerformStep
            => /\ engine'.state.season.current_week >= engine.state.season.current_week
               /\ engine.state.season.current_week <= engine.state.season.total_weeks + 1
               /\ engine'.state.season.current_week <= engine'.state.season.total_weeks + 1
               /\ (~SeasonCompleted(engine) /\ call'.action \in {"train", "rest", "tournament"})
                    => engine'.state.season.current_week =
                         engine.state.season.current_week
                         + (IF "skip_advance" \in DOMAIN call'.payload THEN 0 ELSE 1) ]_vars

\* C5, its case: a training with the suppression flag in week 2, which an
\* earlier action without the flag had reached
C5_Witness ==
    /\ call.op = "perform_action"
    /\ call.action = "train"
    /\ "skip_advance" \in DOMAIN call.payload
    /\ engine.state.season.current_week = 2
    /\ ~SeasonCompleted(engine)

\* C6: when current_week > total_weeks every perform_action call, whatever the
\* kind, returns without error and changes nothing except last_message, set to
\* the season-over message, and season_summary, finalized if it was null
C6_SeasonOverGuard ==
    [][ (PerformStep /\ SeasonCompleted(engine))
            => /\ IsNone(call'.raised)
               /\ engine'.state.last_message = SeasonOverMessage
               /\ ~IsNone(engine'.state.season_summary)
               /\ ~IsNone(engine.state.season_summary)
                    => engine'.state.season_summary = engine.state.season_summary
               /\ engine'.state.golfer = engine.state.golfer
               /\ engine'.state.season = engine.state.season
               /\ engine'.state.ledger = engine.state.ledger
               /\ engine'.state.season_players = engine.state.season_players
               /\ engine'.state.player_stats = engine.state.player_stats
               /\ engine'.state.season_results = engine.state.season_results
               /\ engine'.state.last_tournament_result = engine.state.last_tournament_result
               /\ engine'.state.season_rankings = engine.state.season_rankings
               /\ engine'.random = engine.random ]_vars

\* C6, its case: an unrecognized kind sent after the season's end was answered
\* with the season-over message
C6_Witness ==
    /\ call.op = "perform_action"
    /\ call.action \notin ActionKinds
    /\ IsNone(call.raised)
    /\ SeasonCompleted(engine)
    /\ engine.state.last_message = SeasonOverMessage
    /\ ~IsNone(engine.state.season_summary)

\* C7: once season_summary is non-null every later perform_action call leaves it
\* identical and consumes no random draw
C7_SummaryFrozen ==
    [][ (PerformStep /\ ~IsNone(engine.state.season_summary))
            => /\ engine'.state.season_summary = engine.state.season_summary
               /\ engine'.random = engine.random ]_vars

\* C7, its case: a second call after the one that ended the season, on a summary
\* that lists a tournament
C7_Witness ==
    /\ call.op = "perform_action"
    /\ call.n = 2
    /\ engine.state.last_message = SeasonOverMessage
    /\ ~IsNone(engine.state.season_summary)
    /\ engine.state.season.total_weeks = 1
    /\ Len(engine.state.season_summary[1].tournaments) = 1

\* C8: after a perform_action call returns, season_summary is non-null iff
\* current_week > total_weeks; it is null in every ACTIVE state, and when it is
\* set season_rankings has 1 + |season_players| rows
C8_SummaryIffOver ==
    /\ ~SeasonCompleted(engine) => IsNone(engine.state.season_summary)
    /\ (call.op = "perform_action" /\ IsNone(call.raised))
            => /\ ~IsNone(engine.state.season_summary) <=> SeasonCompleted(engine)
               /\ SeasonCompleted(engine)
                    => /\ Len(engine.state.season_rankings)
                            = 1 + Len(engine.state.season_players)
                       /\ Len(engine.state.season_summary[1].rankings)
                            = 1 + Len(engine.state.season_players)

\* C8, its case: the one action of a season of length 1 moved current_week past
\* total_weeks and set the summary in the same call
C8_Witness ==
    /\ call.op = "perform_action"
    /\ call.n = 1
    /\ call.action = "rest"
    /\ engine.state.season.total_weeks = 1
    /\ engine.state.season.current_week = 2
    /\ ~IsNone(engine.state.season_summary)

\* C9: a week-advancing action that is not a played tournament, in a week with a
\* scheduled tournament, appends exactly one result for that week before the week
\* is incremented: position "NP", four null round scores, zero entry fee, prize,
\* net money, reputation and motivation delta; the auto-resolution appends no
\* ledger entry and leaves the golfer and the human's season stats as they were
C9_SkippedTournamentResolved ==
    [][ (/\ PerformStep
         /\ ~SeasonCompleted(engine)
         /\ call'.action \in {"train", "rest"}
         /\ "skip_advance" \notin DOMAIN call'.payload
         /\ \E i \in 1..Len(engine.state.season.tournaments) :
                engine.state.season.tournaments[i].week = engine.state.season.current_week)
            => LET week == engine.state.season.current_week
                   before == engine.state.season_results
                   after == engine'.state.season_results
                   np == after[Len(after)]
               IN  /\ Len(after) = Len(before) + 1
                   /\ SubSeq(after, 1, Len(before)) = before
                   /\ np.week = week
                   /\ np.position = "NP"
                   /\ np.round_scores = << None, None, None, None >>
                   /\ np.entry_fee = 0 /\ np.prize_money = 0 /\ np.net_money = 0
                   /\ np.reputation_delta = 0 /\ np.motivation_delta = 0
                   /\ engine'.state.season.current_week = week + 1
                   /\ Len(engine'.appended) = Len(engine.appended) + 1
                   /\ engine'.appended[Len(engine'.appended)].action
                        \in {"Entrainement", "Repos"}
                   /\ engine'.state.golfer
                        = Handle(engine, call'.action, call'.payload).state.golfer
                   /\ engine'.state.player_stats = engine.state.player_stats ]_vars

\* C9, its case: a rest in week 1, where a tournament was scheduled, left an "NP"
\* result for week 1 and moved to week 2
C9_Witness ==
    /\ call.op = "perform_action"
    /\ call.n = 1
    /\ call.action = "rest"
    /\ engine.state.season.current_week = 2
    /\ Len(engine.state.season_results) = 1
    /\ engine.state.season_results[1].position = "NP"
    /\ engine.state.season_results[1].week = 1

\* C10: season_results never contains both a played result and an "NP" result
\* for the same week
C10_PlayedNeverAutoResolved ==
    \A i, j \in 1..Len(engine.state.season_results) :
        engine.state.season_results[i].week = engine.state.season_results[j].week
            => ~(/\ engine.state.season_results[i].position # "NP"
                 /\ engine.state.season_results[j].position = "NP")

\* C11: an agent_chat action performed in the ACTIVE state never changes
\* current_week, records one ledger entry whose money_delta is 0, leaves the
\* golfer's money, reputation, fatigue_physical and skills unchanged, and does not
\* auto-resolve the week's tournament (season_results is unchanged)
C11_ChatFrame ==
    [][ (PerformStep /\ ~SeasonCompleted(engine) /\ call'.action = "agent_chat")
            => /\ engine'.state.season.current_week = engine.state.season.current_week
               /\ Len(engine'.appended) = Len(engine.appended) + 1
               /\ engine'.appended[Len(engine'.appended)].money_delta = 0
               /\ engine'.appended[Len(engine'.appended)].action = "Discussion"
               /\ engine'.state.ledger[Len(engine'.state.ledger)]
                    = engine'.appended[Len(engine'.appended)]
               /\ engine'.state.golfer.money = engine.state.golfer.money
               /\ engine'.state.golfer.reputation = engine.state.golfer.reputation
               /\ engine'.state.golfer.fatigue_physical = engine.state.golfer.fatigue_physical
               /\ engine'.state.golfer.skills = engine.state.golfer.skills
               /\ engine'.state.season_results = engine.state.season_results
               /\ IsNone(engine'.resolved) ]_vars

\* C11, its case: an agent_chat in week 1, where a tournament is scheduled and
\* unresolved, after a training that kept the week
C11_Witness ==
    /\ call.op = "perform_action"
    /\ call.action = "agent_chat"
    /\ call.n = 2
    /\ engine.state.season.current_week = 1
    /\ ~IsNone(LookupTournament(engine.state.season, 1))
    /\ engine.state.season_results = <<>>
    /\ Len(engine.state.ledger) = 2
    /\ engine.state.ledger[2].action = "Discussion"
    /\ engine.state.ledger[2].money_delta = 0

\* C12: every agent_chat call accepted in the ACTIVE state, with or without
\* payload overrides, leaves fatigue_mental no higher and motivation no lower than
\* they were
C12_ChatNeverWorsens ==
    [][ (PerformStep /\ ~SeasonCompleted(engine) /\ call'.action = "agent_chat")
            => /\ engine'.state.golfer.fatigue_mental <= engine.state.golfer.fatigue_mental
               /\ engine'.state.golfer.motivation >= engine.state.golfer.motivation ]_vars

\* C13: for every action the fatigue_physical_delta and fatigue_mental_delta of
\* the ledger entry it records equal the change of the golfer's fatigue_physical
\* and fatigue_mental over the call
C13_LedgerFatigueIsActual ==
    [][ (PerformStep /\ ~SeasonCompleted(engine) /\ call'.action \in ActionKinds)
            => LET entry == engine'.appended[Len(engine'.appended)]
               IN  /\ Len(engine'.appended) = Len(engine.appended) + 1
                   /\ entry.fatigue_physical_delta
                        = engine'.state.golfer.fatigue_physical
                          - engine.state.golfer.fatigue_physical
                   /\ entry.fatigue_mental_delta
                        = engine'.state.golfer.fatigue_mental
                          - engine.state.golfer.fatigue_mental ]_vars

\* C14: for every played tournament the reputation_delta of the ledger entry and
\* of the TournamentResult equals the change of the golfer's reputation over the
\* call
C14_ReputationDeltaIsActual ==
    [][ (/\ PerformStep
         /\ ~SeasonCompleted(engine)
         /\ call'.action = "tournament"
         /\ ~IsNone(LookupTournament(engine.state.season,
                                     engine.state.season.current_week)))
            => LET entry == engine'.appended[Len(engine'.appended)]
                   result == engine'.state.season_results[Len(engine.state.season_results) + 1]
                   actual == engine'.state.golfer.reputation - engine.state.golfer.reputation
               IN  /\ entry.action = "Tournoi"
                   /\ result.position # "NP"
                   /\ entry.reputation_delta = actual
                   /\ result.reputation_delta = actual ]_vars

\* C15: after every perform_action that returns, season_rankings has
\* 1 + |season_players| rows, row i carries rank i, the rows are sorted by points
\* descending then earnings descending, each row carries the current stats of the
\* human or of one competitor (each exactly once), and rows of equal (points,
\* earnings) stand in insertion order: the human first, then the roster's order
C15_RankingsSorted ==
    (call.op = "perform_action" /\ IsNone(call.raised))
        => LET r == engine.state.season_rankings
               players == engine.state.season_players
               stats == engine.state.player_stats[1]
               N == Len(r)
               Src(i) == IF r[i].is_user THEN 0
                         ELSE IF \E k \in 1..Len(players) : players[k].player_id = r[i].player_id
                         THEN CHOOSE k \in 1..Len(players) : players[k].player_id = r[i].player_id
                         ELSE -1
               Carries(row, of, name) ==
                   /\ row.player_id = of.player_id
                   /\ row.name = name
                   /\ row.earnings = of.earnings
                   /\ row.points = of.points
                   /\ row.events = of.events_played
                   /\ row.cuts = of.cuts_made
                   /\ row.wins = of.wins
                   /\ row.last_result
                        = (IF IsNone(of.last_result) THEN "-" ELSE of.last_result[1])
           IN  /\ N = 1 + Len(players)
               /\ \A i \in 1..N : r[i].rank = i
               /\ \A i \in 1..(N - 1) :
                    \/ r[i].points > r[i + 1].points
                    \/ /\ r[i].points = r[i + 1].points
                       /\ r[i].earnings >= r[i + 1].earnings
               /\ Cardinality({ r[i].player_id : i \in 1..N }) = N
               /\ Cardinality({ i \in 1..N : r[i].is_user }) = 1
               /\ \A i \in 1..N :
                    IF r[i].is_user THEN Carries(r[i], stats, engine.state.golfer.name)
                    ELSE /\ Src(i) >= 1
                         /\ Carries(r[i], players[Src(i)], players[Src(i)].name)
               /\ \A i \in 1..(N - 1) :
                    (r[i].points = r[i + 1].points /\ r[i].earnings = r[i + 1].earnings)
                        => Src(i) < Src(i + 1)

\* C15, its case: after a played tournament the human stands below the winner
\* with points of their own, and the competitors who missed the cut tie at the end
C15_Witness ==
    /\ call.op = "perform_action"
    /\ call.action = "tournament"
    /\ IsNone(call.raised)
    /\ Len(engine.state.season_rankings) = 200
    /\ engine.state.season_rankings[1].points = 500
    /\ ~engine.state.season_rankings[1].is_user
    /\ \E i \in 2..200 : /\ engine.state.season_rankings[i].is_user
                          /\ engine.state.season_rankings[i].points > 0
    /\ engine.state.season_rankings[199].points = 0
    /\ engine.state.season_rankings[200].points = 0

\* C16: in every resolution exactly min(80, field size) entrants made the cut, no
\* entrant that missed it has a strictly smaller (two-round total, round 2,
\* round 1) key than one that made it, every entrant that made the cut has scores
\* for rounds 3 and 4 and every other entrant has none
C16_CutLine ==
    ~IsNone(engine.resolved)
        => LET p == engine.resolved[1].participants
               N == Len(p)
               Key(i) == << p[i].raw_rounds[1] + p[i].raw_rounds[2],
                            p[i].raw_rounds[2], p[i].raw_rounds[1] >>
           IN  /\ Cardinality({ i \in 1..N : p[i].made_cut }) = Min(80, N)
               /\ \A i, j \in 1..N :
                    (p[i].made_cut /\ ~p[j].made_cut) => ~LexLess(Key(j), Key(i))
               /\ \A i \in 1..N :
                    /\ Len(p[i].display_rounds) = 4
                    /\ ~IsNone(p[i].display_rounds[1]) /\ ~IsNone(p[i].display_rounds[2])
                    /\ IF p[i].made_cut
                       THEN ~IsNone(p[i].display_rounds[3]) /\ ~IsNone(p[i].display_rounds[4])
                       ELSE IsNone(p[i].display_rounds[3]) /\ IsNone(p[i].display_rounds[4])

\* C16, its case: a played resolution of 200 entrants in which the human is one
\* of the 120 that missed the cut
C16_Witness ==
    /\ ~IsNone(engine.resolved)
    /\ engine.resolved[1].include_player
    /\ Len(engine.resolved[1].participants) = 200
    /\ ~engine.resolved[1].participants[200].made_cut
    /\ engine.resolved[1].participants[200].is_player
    /\ \E i \in 1..199 : engine.resolved[1].participants[i].made_cut

\* C17: every resolution has exactly 200 entrants: 199 competitors and the human
\* when the human plays, 200 competitors when the tournament is auto-resolved
C17_FieldOf200 ==
    ~IsNone(engine.resolved)
        => LET p == engine.resolved[1].participants
               ai == { i \in 1..Len(p) : ~p[i].is_player }
           IN  /\ Len(p) = 200
               /\ Cardinality(ai) = (IF engine.resolved[1].include_player THEN 199 ELSE 200)

\* C20: in every resolution an entrant's rank is at most 80 iff it made the cut,
\* every entrant that missed the cut is labelled "MC" with zero prize and zero
\* points, and a played TournamentResult has missed_cut exactly when its position
\* is "MC"
C20_RankAndCut ==
    /\ ~IsNone(engine.resolved)
        => LET p == engine.resolved[1].participants
           IN  \A i \in 1..Len(p) :
                 /\ (p[i].rank <= 80) <=> p[i].made_cut
                 /\ ~p[i].made_cut
                      => /\ p[i].position_label = "MC"
                         /\ p[i].prize = 0
                         /\ p[i].points = 0
    /\ \A k \in 1..Len(engine.state.season_results) :
          engine.state.season_results[k].position # "NP"
            => (engine.state.season_results[k].missed_cut
                  <=> engine.state.season_results[k].position = "MC")

\* C20, its case: a played resolution whose entrant of rank 80 made the cut and
\* whose entrant of rank 81 missed it, recorded for the human as "MC"
C20_Witness ==
    /\ ~IsNone(engine.resolved)
    /\ engine.resolved[1].include_player
    /\ engine.resolved[1].participants[engine.resolved[1].final_order[80]].made_cut
    /\ ~engine.resolved[1].participants[engine.resolved[1].final_order[81]].made_cut
    /\ engine.resolved[1].participants[engine.resolved[1].final_order[81]].rank = 81
    /\ engine.state.season_results # <<>>
    /\ engine.state.season_results[Len(engine.state.season_results)].position = "MC"
    /\ engine.state.season_results[Len(engine.state.season_results)].missed_cut

\* C18: for every played tournament the entry fee is the tournament's own
\* entry_fee when it has one (0 included), else the global default, raised to 0
\* when negative; the golfer's money changes by the prize minus that fee whatever
\* the result, and the recorded net_money is the prize minus that fee
C18_EntryFee ==
    [][ (/\ PerformStep
         /\ ~SeasonCompleted(engine)
         /\ call'.action = "tournament"
         /\ ~IsNone(LookupTournament(engine.state.season,
                                     engine.state.season.current_week)))
            => LET tournament == LookupTournament(engine.state.season,
                                                  engine.state.season.current_week)[1]
                   own == tournament.entry_fee
                   default == IF "tournament" \in DOMAIN config
                                 /\ "entry_fee" \in DOMAIN config.tournament
                              THEN config.tournament.entry_fee ELSE 0
                   chosen == IF IsNone(own) THEN default ELSE own[1]
                   fee == IF chosen < 0 THEN 0 ELSE chosen
                   result == engine'.state.season_results[Len(engine.state.season_results) + 1]
                   entry == engine'.appended[Len(engine'.appended)]
               IN  /\ result.position # "NP"
                   /\ result.entry_fee = fee
                   /\ result.net_money = result.prize_money - fee
                   /\ entry.money_delta = result.prize_money - fee
                   /\ engine'.state.golfer.money
                        = engine.state.golfer.money - fee + result.prize_money ]_vars

\* C18, its case: a tournament with an entry fee of its own (120) that differs
\* from the global one (150) was played and paid a prize
C18_Witness ==
    /\ call.op = "perform_action"
    /\ call.action = "tournament"
    /\ call.n = 1
    /\ "tournament" \in DOMAIN config
    /\ config.tournament.entry_fee = 150
    /\ ~IsNone(engine.state.last_tournament_result)
    /\ engine.state.last_tournament_result[1].entry_fee = 120
    /\ engine.state.last_tournament_result[1].prize_money > 0
    /\ engine.state.golfer.money
         = 1000 - 120 + engine.state.last_tournament_result[1].prize_money

\* C19: whenever the human misses the cut in a played tournament, the recorded
\* result has scores for rounds 1 and 2 and none for rounds 3 and 4, its
\* prize_money is 0, the golfer's money decreases by exactly the entry fee, and the
\* last ledger entry's money_delta is minus the entry fee
C19_MissedCut ==
    [][ (/\ PerformStep
         /\ ~SeasonCompleted(engine)
         /\ call'.action = "tournament"
         /\ Len(engine'.state.season_results) > Len(engine.state.season_results)
         /\ engine'.state.season_results[Len(engine.state.season_results) + 1].missed_cut)
            => LET result == engine'.state.season_results[Len(engine.state.season_results) + 1]
                   ledger == engine'.state.ledger
               IN  /\ Len(result.round_scores) = 4
                   /\ ~IsNone(result.round_scores[1]) /\ ~IsNone(result.round_scores[2])
                   /\ IsNone(result.round_scores[3]) /\ IsNone(result.round_scores[4])
                   /\ result.prize_money = 0
                   /\ engine'.state.golfer.money
                        = engine.state.golfer.money - result.entry_fee
                   /\ ledger[Len(ledger)].action = "Tournoi"
                   /\ ledger[Len(ledger)].money_delta = -result.entry_fee ]_vars

\* C19, its case: the low-skill golfer paid 400 for an event of purse 300 and
\* missed the cut
C19_Witness ==
    /\ call.op = "perform_action"
    /\ call.action = "tournament"
    /\ call.n = 1
    /\ ~IsNone(engine.state.last_tournament_result)
    /\ engine.state.last_tournament_result[1].missed_cut
    /\ engine.state.last_tournament_result[1].entry_fee = 400
    /\ engine.state.golfer.money = 400
    /\ engine.state.ledger[Len(engine.state.ledger)].money_delta = -400

\* C21: the golfer's money equals the configured initial money plus the sum of the
\* money_delta of every ledger entry appended since the start, evicted entries
\* included; each call changes money by exactly the money_delta of the entry it
\* appends, and an auto-resolved tournament changes no money
C21_MoneyIsLedgerSum ==
    /\ [](engine.state.golfer.money
            = Get(config.initial_player, "money", 0)
              + SumOver([ i \in 1..Len(engine.appended) |->
                            engine.appended[i].money_delta ], 1, Len(engine.appended)))
    /\ [][ (PerformStep /\ ~SeasonCompleted(engine) /\ IsNone(call'.raised))
              => /\ Len(engine'.appended) = Len(engine.appended) + 1
                 /\ engine'.state.golfer.money - engine.state.golfer.money
                      = engine'.appended[Len(engine'.appended)].money_delta ]_vars

\* C21, its case: 52 entries appended, the two oldest evicted, among them a played
\* tournament and a training that cost money and auto-resolved no second fee
C21_Witness ==
    /\ Len(engine.appended) = 52
    /\ Len(engine.state.ledger) = 50
    /\ engine.appended[1].action = "Tournoi"
    /\ engine.appended[1].money_delta # 0
    /\ \E i \in 2..52 : /\ engine.appended[i].action = "Entrainement"
                         /\ engine.appended[i].money_delta = -100
    /\ engine.state.golfer.money = 1000 + engine.appended[1].money_delta - 100

\* C22: a train action naming a skill adds the configured skill increase to that
\* skill only (a skill absent from the map is created from 0), adds the configured
\* physical and mental fatigue clamped to [0,100], subtracts the configured cost
\* from money, raises form by 1 capped at 100, leaves reputation and motivation
\* unchanged, appends one ledger entry whose skill_changes is {skill: increase},
\* and, without the suppression flag, advances the week by one
C22_TrainNamedSkill ==
    [][ (/\ PerformStep
         /\ ~SeasonCompleted(engine)
         /\ call'.action = "train"
         /\ "skill" \in DOMAIN call'.payload)
            => LET skill == call'.payload.skill
                   rules == IF "training" \in DOMAIN config THEN config.training ELSE <<>>
                   increase == IF "skill_increase" \in DOMAIN rules
                               THEN rules.skill_increase ELSE 2
                   physical == IF "physical_fatigue" \in DOMAIN rules
                               THEN rules.physical_fatigue
                               ELSE IF "fatigue" \in DOMAIN rules THEN rules.fatigue ELSE 10
                   mental == IF "mental_fatigue" \in DOMAIN rules THEN rules.mental_fatigue
                             ELSE IF physical \div 2 > 0 THEN physical \div 2 ELSE 0
                   cost == IF "cost" \in DOMAIN rules THEN rules.cost ELSE 0
                   Clamp(v) == IF v < 0 THEN 0 ELSE IF v > 100 THEN 100 ELSE v
                   before == engine.state.golfer
                   after == engine'.state.golfer
                   Has(skills) == \E i \in 1..Len(skills) : skills[i][1] = skill
                   Value(skills) ==
                       IF Has(skills)
                       THEN skills[CHOOSE i \in 1..Len(skills) : skills[i][1] = skill][2]
                       ELSE 0
                   entry == engine'.appended[Len(engine'.appended)]
               IN  /\ Has(after.skills)
                   /\ Value(after.skills) = Value(before.skills) + increase
                   /\ Len(after.skills)
                        = Len(before.skills) + (IF Has(before.skills) THEN 0 ELSE 1)
                   /\ \A i \in 1..Len(before.skills) :
                        before.skills[i][1] # skill => after.skills[i] = before.skills[i]
                   /\ after.fatigue_physical = Clamp(before.fatigue_physical + physical)
                   /\ after.fatigue_mental = Clamp(before.fatigue_mental + mental)
                   /\ after.money = before.money - cost
                   /\ after.form = (IF before.form + 1 > 100 THEN 100 ELSE before.form + 1)
                   /\ after.reputation = before.reputation
                   /\ after.motivation = before.motivation
                   /\ Len(engine'.appended) = Len(engine.appended) + 1
                   /\ entry.action = "Entrainement"
                   /\ entry.skill_changes = << <<skill, increase>> >>
                   /\ "skip_advance" \notin DOMAIN call'.payload
                        => engine'.state.season.current_week
                             = engine.state.season.current_week + 1 ]_vars

\* C22, its case: a training on "bunker", a skill the golfer did not have, under
\* the rule {increase 4, physical 10, mental 6, cost 100}
C22_Witness ==
    /\ call.op = "perform_action"
    /\ call.action = "train"
    /\ call.n = 1
    /\ call.payload = [skill |-> "bunker"]
    /\ engine.state.golfer.skills
         = << <<"driving", 50>>, <<"approach", 50>>, <<"short_game", 50>>,
              <<"putting", 50>>, <<"bunker", 4>> >>
    /\ engine.state.golfer.fatigue_physical = 10
    /\ engine.state.golfer.fatigue_mental = 6
    /\ engine.state.golfer.money = 900
    /\ engine.state.season.current_week = 2


\* C23: for every reachable career state, saving it and loading it back succeeds
\* and yields a state equal to the original field for field, tournaments with
\* no entry_fee override included.
C23_SaveLoadRoundTrip ==
    LET loaded == LoadState(SaveState(engine, engine.state).saved)
    IN  /\ IsNone(loaded.raised)
        /\ loaded.value = Some(engine.state)

\* the same round trip for the careers whose every tournament has its own fee
C23_RoundTripWithFees ==
    (\A i \in 1..Len(engine.state.season.tournaments) :
        ~IsNone(engine.state.season.tournaments[i].entry_fee))
    => C23_SaveLoadRoundTrip


\* C24: requests addressed to the same engine are served one at a time: the
\* perform_action and reset executions of two requests never overlap, and no
\* ledger append of an action is lost to another action.
C24_ActionsSerialized ==
    workers # NoWorkers =>
        /\ \A v, w \in WorkerIds :
               (workers[v].pc # "idle" /\ workers[w].pc # "idle") => v = w
        /\ Len(engine.state.ledger) = Min(Len(engine.appended), ledger_keep)

\* the ledger holds every entry appended since the last reset, up to fifty
C24_NoLostAppend ==
    workers # NoWorkers =>
        Len(engine.state.ledger) = Min(Len(engine.appended), ledger_keep)

\* a discussion's ledger entry reports the change of mental fatigue it made
C24_NoLostFatigue ==
    [][\A w \in WorkerIds :
          (workers # NoWorkers /\ workers[w].pc = "write" /\ workers'[w].pc = "append")
          => workers'[w].entry[1].fatigue_mental_delta
               = engine'.state.golfer.fatigue_mental - engine.state.golfer.fatigue_mental]_vars


\* C25: after every perform_action or reset call that returns, the state last
\* handed to the store's save equals the engine's career state, calls made
\* after the season is over included.
C25_SavedIsCurrent ==
    (call.op \in {"perform_action", "reset"} /\ IsNone(call.raised))
    => engine.saved = Some(engine.state)

\* the same for the perform_action calls made while the season is running
C25_SavedAfterActiveAction ==
    [][(PerformStep /\ ~SeasonCompleted(engine) /\ IsNone(call'.raised))
       => engine'.saved = Some(engine'.state)]_vars

\* the same for the reset calls alone: refuted, reset_state saves the initial
\* state before reset builds the rankings
C25_SavedAfterReset ==
    [][(call'.n = call.n + 1 /\ call'.op = "reset")
       => engine'.saved = Some(engine'.state)]_vars


\* what C26 says of the state a reset returns, the season's state aside
ResetToInitial(e) ==
    /\ e.state.season.current_week = 1
    /\ e.state.ledger = <<>>
    /\ e.state.season_results = <<>>
    /\ IsNone(e.state.season_summary)
    /\ e.state.golfer = GolferFromDict(config.initial_player)
    /\ e.state.player_stats = Some(PlayerSeasonStats("USER"))
    /\ \A i \in 1..Len(e.state.season_players) :
          LET p == e.state.season_players[i]
          IN  /\ p.earnings = 0 /\ p.points = 0 /\ p.events_played = 0
              /\ p.cuts_made = 0 /\ p.wins = 0 /\ IsNone(p.last_result)

ResetStep == call'.n = call.n + 1 /\ call'.op = "reset"

\* a perform_action of a known kind that was handled as in an active season
HandledActive ==
    /\ engine'.appended # <<>>
    /\ engine'.state.last_message # SeasonOverMessage

\* C26: from any state, the season over included, reset returns the career to
\* the initial configuration (week 1, empty ledger and season_results, no
\* summary, the configured golfer, zeroed statistics for the human and every
\* competitor), and the next perform_action is handled as in an active season.
C26_ResetThenActive ==
    /\ [][ResetStep => (ResetToInitial(engine') /\ ~SeasonCompleted(engine'))]_vars
    /\ [][(call.op = "reset" /\ PerformStep /\ call'.action \in ActionKinds)
          => HandledActive]_vars

\* C26 as it holds: the next perform_action is handled as in an active season
\* when the configured season has at least one week.
C26_ResetToInitial ==
    /\ [][ResetStep =>
            /\ ResetToInitial(engine')
            /\ engine'.state.season.total_weeks >= 1 => ~SeasonCompleted(engine')]_vars
    /\ [][(call.op = "reset" /\ PerformStep /\ call'.action \in ActionKinds
           /\ engine.state.season.total_weeks >= 1)
          => HandledActive]_vars

\* C26, its case: the one-week season of LossConfig ended with its tournament
\* resolved for the 199 competitors (six draws each), and the reset that
\* followed returned the initial career
C26_Witness ==
    /\ config = LossConfig
    /\ call.op = "reset"
    /\ call.n = 2
    /\ engine.random.calls = 6 * Len(engine.state.season_players)
    /\ engine.state.season.total_weeks = 1
    /\ ResetToInitial(engine)
    /\ ~SeasonCompleted(engine)


\* who a competitor is: what no tournament changes
Competitor(p) == << p.player_id, p.name, p.base_skill >>

\* C27: after construction and after every perform_action season_players holds
\* at least 199 competitors; no perform_action removes, reorders or replaces a
\* competitor, and the list, once at its target, keeps its length.
C27_CompetitorsKept ==
    /\ [](Len(engine.state.season_players) >= 199)
    /\ [][PerformStep =>
            /\ Len(engine'.state.season_players) = Len(engine.state.season_players)
            /\ \A i \in 1..Len(engine.state.season_players) :
                  Competitor(engine'.state.season_players[i])
                    = Competitor(engine.state.season_players[i])]_vars

\* C27, its case: the two configured competitors, joined by 197 drawn ones at
\* construction, are where they were after two actions and a resolved tournament
C27_Witness ==
    /\ config = DefaultsConfig
    /\ call.op = "perform_action"
    /\ call.n = 2
    /\ Len(engine.state.season_players) = 199
    /\ engine.state.season_players[1].player_id = "RIVAL"
    /\ engine.state.season_players[2].name = "Rival Two"
    /\ engine.state.season_players[3].player_id = "P003"
    /\ engine.state.season_players[1].events_played >= 1


\* no tournament of the season is scheduled in the current week
FreeWeek(e) ==
    \A i \in 1..Len(e.state.season.tournaments) :
        e.state.season.tournaments[i].week # e.state.season.current_week

\* C28: a tournament action in a week with no scheduled tournament appends one
\* ledger entry with every delta zero and no skill change, sets an
\* informational message, draws no random number, leaves the golfer, the
\* human's and the competitors' statistics and season_results as they were,
\* and still advances the week.
C28_NoTournamentFrame ==
    [][(PerformStep /\ call'.action = "tournament" /\ ~SeasonCompleted(engine)
        /\ FreeWeek(engine))
       => /\ Len(engine'.appended) = Len(engine.appended) + 1
          /\ LET entry == engine'.appended[Len(engine'.appended)]
             IN  /\ entry.week = engine.state.season.current_week
                 /\ entry.action = "Tournoi"
                 /\ entry.money_delta = 0
                 /\ entry.fatigue_physical_delta = 0
                 /\ entry.fatigue_mental_delta = 0
                 /\ entry.reputation_delta = 0
                 /\ entry.motivation_delta = 0
                 /\ entry.skill_changes = <<>>
                 /\ engine'.state.ledger[Len(engine'.state.ledger)] = entry
          /\ engine'.state.last_message \in
                { "Aucun tournoi prevu cette semaine.",
                  "Aucun tournoi prevu cette semaine. Saison terminee !" }
          /\ engine'.random = engine.random
          /\ engine'.state.golfer = engine.state.golfer
          /\ engine'.state.player_stats = engine.state.player_stats
          /\ engine'.state.season_players = engine.state.season_players
          /\ engine'.state.season_results = engine.state.season_results
          /\ IsNone(engine'.state.last_tournament_result)
          /\ "skip_advance" \notin DOMAIN call'.payload
             => engine'.state.season.current_week = engine.state.season.current_week + 1]_vars

\* C28, its case: the tournament action in week 2 of TestConfig, where nothing
\* is scheduled, after a week of rest with its tournament resolved
C28_Witness ==
    /\ config = TestConfig
    /\ call.op = "perform_action"
    /\ call.action = "tournament"
    /\ call.n = 2
    /\ engine.state.season.current_week = 3
    /\ Len(engine.state.season_results) = 1
    /\ Len(engine.appended) = 2
    /\ engine.appended[2].description = "Aucun tournoi dispute"
    /\ engine.state.last_message = "Aucun tournoi prevu cette semaine. Saison terminee !"


\* C29: every resolution of a tournament, played or not, adds one to
\* events_played of every competitor in season_players, adds the competitor's
\* prize and points, adds one to cuts_made exactly when the cut was made and to
\* wins exactly at rank 1, and sets last_result to the position label.
C29_EveryCompetitorUpdated ==
    [][(PerformStep /\ ~IsNone(engine'.resolved))
       => \A i \in 1..Len(engine.state.season_players) :
            LET before == engine.state.season_players[i]
                after == engine'.state.season_players[i]
                field == engine'.resolved[1].participants
            IN  /\ after.events_played = before.events_played + 1
                /\ \E j \in 1..Len(field) :
                      /\ ~field[j].is_player
                      /\ field[j].season_player = i
                      /\ after.earnings = before.earnings + field[j].prize
                      /\ after.points = before.points + field[j].points
                      /\ after.cuts_made = before.cuts_made + (IF field[j].made_cut THEN 1 ELSE 0)
                      /\ after.wins = before.wins + (IF field[j].rank = 1 THEN 1 ELSE 0)
                      /\ after.last_result = Some(field[j].position_label)]_vars


\* the same for the competitors entered in the field, the first 199 of
\* season_players beside the human and the first 200 without
C29_EntrantsUpdated ==
    [][(PerformStep /\ ~IsNone(engine'.resolved))
       => LET field == engine'.resolved[1].participants
          IN  \A j \in 1..Len(field) :
                ~field[j].is_player =>
                  LET before == engine.state.season_players[field[j].season_player]
                      after == engine'.state.season_players[field[j].season_player]
                  IN  /\ after.events_played = before.events_played + 1
                      /\ after.earnings = before.earnings + field[j].prize
                      /\ after.points = before.points + field[j].points
                      /\ after.cuts_made = before.cuts_made + (IF field[j].made_cut THEN 1 ELSE 0)
                      /\ after.wins = before.wins + (IF field[j].rank = 1 THEN 1 ELSE 0)
                      /\ after.last_result = Some(field[j].position_label)]_vars


\* C30: the reputation delta of an entrant is base + 2 at rank 1, base + 1 at
\* rank 2, base at ranks 3 to 5, max(1, base - 1) at ranks 6 to 25,
\* max(0, base - 2) for the ranks 26 to 80 that made the cut and -2 for a missed
\* cut, base being the tournament's reputation_reward; after a played
\* tournament the human's reputation is its previous value plus that delta,
\* floored at 0.
C30_ReputationByRank ==
    [][(PerformStep /\ ~IsNone(engine'.resolved))
       => \A base \in { LookupTournament(engine.state.season,
                                         engine.state.season.current_week)[1].reputation_reward } :
          LET field == engine'.resolved[1].participants
          IN  /\ \A j \in 1..Len(field) :
                    LET rank == field[j].rank
                        gain == field[j].reputation_gain
                    IN  /\ rank = 1 => gain = base + 2
                        /\ rank = 2 => gain = base + 1
                        /\ rank \in 3..5 => gain = base
                        /\ rank \in 6..25 => gain = Max(1, base - 1)
                        /\ (rank \in 26..80 /\ field[j].made_cut) => gain = Max(0, base - 2)
                        /\ ~field[j].made_cut => gain = -2
                        /\ rank \in 1..Len(field)
              /\ engine'.resolved[1].include_player
                   => \E j \in 1..Len(field) :
                        /\ field[j].is_player
                        /\ engine'.state.golfer.reputation
                             = Max(0, engine.state.golfer.reputation + field[j].reputation_gain)
              /\ ~engine'.resolved[1].include_player
                   => engine'.state.golfer.reputation = engine.state.golfer.reputation]_vars

\* C30, its case: the human played and missed the cut with no reputation to
\* lose, in a field whose ranks 6 to 25 each gained the floor of 1
C30_Witness ==
    /\ ~IsNone(engine.resolved)
    /\ engine.resolved[1].include_player
    /\ engine.state.golfer.reputation = 0
    /\ \E j \in 1..Len(engine.resolved[1].participants) :
          /\ engine.resolved[1].participants[j].is_player
          /\ ~engine.resolved[1].participants[j].made_cut
          /\ engine.resolved[1].participants[j].reputation_gain = -2
    /\ \E j \in 1..Len(engine.resolved[1].participants) :
          /\ engine.resolved[1].participants[j].rank = 6
          /\ engine.resolved[1].participants[j].reputation_gain = 1


\* the tournament played by a step, as season_results and the ledger record it
PlayedStep ==
    /\ PerformStep
    /\ ~SeasonCompleted(engine)
    /\ call'.action = "tournament"
    /\ ~FreeWeek(engine)

\* the motivation after a nominal change, clamped to [0, 100]
ClampedMotivation(nominal) == Min(100, Max(0, engine.state.golfer.motivation + nominal))

\* C31: after a played tournament the nominal motivation delta is
\* floor(net_money * coefficient / 1000) + floor(max(reputation_gain, 0) * factor)
\* when net_money > 0 and minus the loss penalty when net_money <= 0, whatever
\* the rank; the motivation is clamped to [0, 100] and the ledger entry and
\* the TournamentResult record the actual change.
C31_MotivationFloor ==
    [][PlayedStep =>
        LET result == engine'.state.season_results[Len(engine.state.season_results) + 1]
            entry == engine'.appended[Len(engine'.appended)]
            rules == tournament_rules
            nominal ==
                IF result.net_money > 0
                THEN ((result.net_money * Get(rules, "motivation_per_1000", 600)) \div 1000000)
                     + ((Max(result.reputation_delta, 0)
                           * Get(rules, "motivation_per_reputation", 500)) \div 1000)
                ELSE -Get(rules, "motivation_loss_on_miss", 6)
        IN  /\ engine'.state.golfer.motivation = ClampedMotivation(nominal)
            /\ entry.motivation_delta
                 = engine'.state.golfer.motivation - engine.state.golfer.motivation
            /\ result.motivation_delta = entry.motivation_delta]_vars

\* the same with each quotient cut toward zero, as int() cuts it
C31_MotivationTruncated ==
    [][PlayedStep =>
        LET result == engine'.state.season_results[Len(engine.state.season_results) + 1]
            entry == engine'.appended[Len(engine'.appended)]
            rules == tournament_rules
            money == result.net_money * Get(rules, "motivation_per_1000", 600)
            reputation == Max(result.reputation_delta, 0)
                            * Get(rules, "motivation_per_reputation", 500)
            nominal ==
                IF result.net_money > 0
                THEN (IF money >= 0 THEN money \div 1000000 ELSE -((-money) \div 1000000))
                     + (IF reputation >= 0 THEN reputation \div 1000
                        ELSE -((-reputation) \div 1000))
                ELSE -Get(rules, "motivation_loss_on_miss", 6)
        IN  /\ engine'.state.golfer.motivation = ClampedMotivation(nominal)
            /\ entry.motivation_delta
                 = engine'.state.golfer.motivation - engine.state.golfer.motivation
            /\ result.motivation_delta = entry.motivation_delta]_vars


\* C32: after every played tournament each skill with a positive value has
\* lost at least 1 point and at most max(1, round(3% of its value)), never
\* going below 0; a skill at 0 or below is unchanged; the ledger entry's
\* skill_changes holds exactly the actual change of every skill that decayed.
C32_SkillDecay ==
    [][PlayedStep =>
        LET before == engine.state.golfer.skills
            after == engine'.state.golfer.skills
            entry == engine'.appended[Len(engine'.appended)]
            decayed == { i \in 1..Len(before) : before[i][2] > 0 }
        IN  /\ Len(after) = Len(before)
            /\ \A i \in 1..Len(before) :
                  /\ after[i][1] = before[i][1]
                  /\ IF before[i][2] > 0
                     THEN /\ before[i][2] - after[i][2] >= 1
                          /\ before[i][2] - after[i][2]
                               <= Max(1, RoundHalfEven(3 * before[i][2], 100))
                          /\ after[i][2] >= 0
                     ELSE after[i][2] = before[i][2]
            /\ Len(entry.skill_changes) = Cardinality(decayed)
            /\ { entry.skill_changes[k] : k \in 1..Len(entry.skill_changes) }
                 = { << before[i][1], after[i][2] - before[i][2] >> : i \in decayed }]_vars

\* C32, its case: in SignedConfig the tournament of week 2 takes the one point
\* a skill of 2 can lose and leaves the skill at 0 alone
C32_Witness ==
    /\ config = SignedConfig
    /\ call.op = "perform_action"
    /\ call.action = "tournament"
    /\ call.n = 2
    /\ engine.state.golfer.skills = << <<"driving", 1>>, <<"putting", 0>> >>
    /\ engine.appended # <<>>
    /\ engine.appended[Len(engine.appended)].skill_changes = << <<"driving", -1>> >>


\* C33: in each resolution the AI drift is drawn from the random source exactly
\* once, and that one value shifts the later rounds of every AI entrant.
C33_OneDriftPerTournament ==
    ~IsNone(engine.resolved)
    => \A i, j \in 1..Len(engine.resolved[1].drifts) :
          engine.resolved[1].drifts[i] = engine.resolved[1].drifts[j]

\* the weaker reading: whatever the number of draws, every AI entrant of a
\* resolution is shifted by the same value
C33_SameDriftValue ==
    ~IsNone(engine.resolved)
    => \A i, j \in 1..Len(engine.resolved[1].drifts) :
          engine.resolved[1].drifts[i].value = engine.resolved[1].drifts[j].value

\* the week-advancing actions still to come in the season: 0 when it is over
WeeksLeft(e) ==
    IF SeasonCompleted(e) THEN 0
    ELSE e.state.season.total_weeks - e.state.season.current_week + 1

\* the call taken is a train, rest or tournament without the suppression flag
AdvancingCall ==
    /\ call'.action \in {"train", "rest", "tournament"}
    /\ "skip_advance" \notin DOMAIN call'.payload

\* C34: in an active season a train, rest or tournament call without the
\* suppression flag uses up exactly one of the total_weeks - current_week + 1
\* weeks left, every other call (agent_chat, a suppressed action, a rejected
\* one) uses up none, so the season is over exactly when that many advancing
\* calls have been made; and a perform_action call on a season that is over
\* leaves it over
C34_SeasonEndsOnCount ==
    [][PerformStep =>
          /\ (~SeasonCompleted(engine) /\ AdvancingCall)
                => WeeksLeft(engine') = WeeksLeft(engine) - 1
          /\ (~SeasonCompleted(engine) /\ ~AdvancingCall)
                => WeeksLeft(engine') = WeeksLeft(engine)
          /\ SeasonCompleted(engine) => SeasonCompleted(engine')
          /\ engine'.state.season.total_weeks = engine.state.season.total_weeks]_vars

\* C34 witness: a season of one week that its first call ended and on which a
\* second perform_action call was answered with the season still over
C34_Witness ==
    /\ config = LossConfig
    /\ call.n = 2
    /\ call.op = "perform_action"
    /\ SeasonCompleted(engine)
    /\ engine.state.last_message = SeasonOverMessage

\* the tournaments of the season whose week lies in the season and is behind
\* the current week
PassedTournaments(e) ==
    { k \in 1..Len(e.state.season.tournaments) :
        /\ e.state.season.tournaments[k].week >= 1
        /\ e.state.season.tournaments[k].week <= e.state.season.total_weeks
        /\ e.state.season.tournaments[k].week < e.state.season.current_week }

\* C35: every tournament scheduled in a week of the season that the current
\* week has passed has at least one result in season_results, so a finished
\* season has a result for each tournament scheduled within it
C35_PassedTournamentsResolved ==
    \A k \in PassedTournaments(engine) :
        \E i \in 1..Len(engine.state.season_results) :
            engine.state.season_results[i].week = engine.state.season.tournaments[k].week

\* C35 witness: a finished season of two weeks with a tournament in each, the
\* first one played and the second one resolved without the player
C35_Witness ==
    /\ config = DefaultsConfig
    /\ SeasonCompleted(engine)
    /\ PassedTournaments(engine) = {1, 2}
    /\ Len(engine.state.season_results) = 2
    /\ engine.state.season_results[1].position # "NP"
    /\ engine.state.season_results[2].position = "NP"

\* the season statistics of the human and of every competitor
AllStats(e) ==
    << [ events_played |-> e.state.player_stats[1].events_played,
         cuts_made |-> e.state.player_stats[1].cuts_made,
         wins |-> e.state.player_stats[1].wins ] >>
    \o ListOf([ i \in 1..Len(e.state.season_players) |->
                  [ events_played |-> e.state.season_players[i].events_played,
                    cuts_made |-> e.state.season_players[i].cuts_made,
                    wins |-> e.state.season_players[i].wins ] ])

\* the results of the season that the human played
PlayedResults(e) == SelectSeq(e.state.season_results, LAMBDA r : r.position # "NP")

\* C36: the wins of the human and of all competitors add up to the number of
\* results of the season, their cuts made to 80 times that number, the human's
\* events_played is the number of results whose position is not "NP", and
\* every one of them has wins <= cuts_made <= events_played
C36_StatsAccounting ==
    \E stats \in { AllStats(engine) } :
        /\ SumOver([ i \in 1..Len(stats) |-> stats[i].wins ], 1, Len(stats))
              = Len(engine.state.season_results)
        /\ SumOver([ i \in 1..Len(stats) |-> stats[i].cuts_made ], 1, Len(stats))
              = cut_count * Len(engine.state.season_results)
        /\ stats[1].events_played = Len(PlayedResults(engine))
        /\ \A i \in 1..Len(stats) :
              /\ stats[i].wins <= stats[i].cuts_made
              /\ stats[i].cuts_made <= stats[i].events_played

\* C36 witness: two resolutions of one week, the tournament played with the
\* week kept and then resolved again without the player, and a competitor with
\* a win
C36_Witness ==
    /\ Len(engine.state.season_results) = 2
    /\ engine.state.season_results[1].week = engine.state.season_results[2].week
    /\ Len(PlayedResults(engine)) = 1
    /\ \E i \in 1..Len(engine.state.season_players) :
          engine.state.season_players[i].wins >= 1

\* the sum of money_delta over a sequence of ledger entries
MoneyDeltas(entries) ==
    SumOver([ i \in 1..Len(entries) |-> entries[i].money_delta ], 1, Len(entries))

\* C37: the grand-total bucket of the season summary has net = gains -
\* depenses, and that net is the sum of money_delta over every entry the
\* season's actions appended, which is the golfer's money at the season's end
\* minus the initial money
C37_TotalIsSeasonMoney ==
    ~IsNone(engine.state.season_summary)
    => \E total \in { engine.state.season_summary[1].ledger_totals["TOTAL"] } :
          /\ total.net = total.gains - total.depenses
          /\ total.net = MoneyDeltas(engine.appended)
          /\ total.net = engine.state.golfer.money - CreateInitialState.golfer.money

\* C37, the part that holds: the net of the grand total is its gains minus its
\* depenses, and the money spent and won is the sum over every appended entry
C37_TotalNetOfKept ==
    ~IsNone(engine.state.season_summary)
    => \E total \in { engine.state.season_summary[1].ledger_totals["TOTAL"] } :
          /\ total.net = total.gains - total.depenses
          /\ total.net = MoneyDeltas(engine.state.ledger)
          /\ MoneyDeltas(engine.appended)
                = engine.state.golfer.money - CreateInitialState.golfer.money

\* the prizes of the entrants of the resolution recorded in e
PrizesAwarded(e) ==
    SumOver([ j \in 1..Len(e.resolved[1].participants) |->
                e.resolved[1].participants[j].prize ],
            1, Len(e.resolved[1].participants))

\* C38: in every resolution, of the current week's tournament, the prizes of
\* all entrants add up to no more than the tournament's purse
C38_PrizesWithinPurse ==
    [][(PerformStep /\ ~IsNone(engine'.resolved))
       => PrizesAwarded(engine')
            <= LookupTournament(engine.state.season,
                                engine.state.season.current_week)[1].purse]_vars

\* C38, on the purses of the configurations: a resolution never awards more
\* than one and a half times a purse that is not negative
C38_PrizesWithinPurseAndHalf ==
    [][(PerformStep /\ ~IsNone(engine'.resolved))
       => \E purse \in { LookupTournament(engine.state.season,
                                          engine.state.season.current_week)[1].purse } :
             purse >= 0 => 2 * PrizesAwarded(engine') <= 3 * purse]_vars

C39_MonotoneWithinBands ==
    [][(/\ PerformStep
        /\ ~IsNone(engine'.resolved)
        /\ LookupTournament(engine.state.season,
                            engine.state.season.current_week)[1].reputation_reward >= 0)
       => \E field \in { engine'.resolved[1].participants } :
             \A i, j \in 1..Len(field) :
                 (field[i].rank < field[j].rank /\ (field[i].rank <= 5) = (field[j].rank <= 5))
                 => field[i].reputation_gain >= field[j].reputation_gain]_vars

====
